---- MODULE Spec2Model ----
(***************************************************************************)
(* Model of the summarization pipeline of TextSummarizer                   *)
(* (src/text_summarizer.py), of the chunker it shares with VoiceGenerator  *)
(* (src/voice_generator.py), of PDFExtractor.extract_text                  *)
(* (src/pdf_extractor.py), of SummaryTool's process_pdf, summarize_text    *)
(* and _save_summary (src/summary_tool.py) and of VoiceGenerator's         *)
(* generate_voice_from_text and _read_summary_file.                        *)
(*                                                                         *)
(* Strings are kept run-length encoded: a string is a sequence of runs     *)
(* [c |-> character, n |-> repetitions], adjacent runs carrying different  *)
(* characters.  "aaa  b" is <<[c:"a",n:3],[c:" ",n:2],[c:"b",n:1]>>.  All  *)
(* string operations of the code (len, split, join, strip, re.sub) are     *)
(* defined on that encoding, so that a 12000-character chunk costs one     *)
(* run instead of 12000 sequence elements.                                 *)
(***************************************************************************)
EXTENDS Integers, Sequences, FiniteSets, TLC

VARIABLES text, duration, max_length, pc, cleaned, target, chunks, i,
          summaries, combined, requests, result, error,
          pdf, call, file, audio_files, history, summarizer

(* The state outside a call of summarize_for_video: the PDF at the input   *)
(* path, the call of SummaryTool or VoiceGenerator in progress, the output *)
(* file, the audio files written, the calls completed so far and the       *)
(* attributes of the TextSummarizer instance.                              *)
outer == <<pdf, call, file, audio_files, history, summarizer>>

vars == <<text, duration, max_length, pc, cleaned, target, chunks, i,
          summaries, combined, requests, result, error,
          pdf, call, file, audio_files, history, summarizer>>

----------------------------------------------------------------------------
(* Bounds of the chunker specification.                                    *)

MaxRuns == 6

MaxRunLen == 2

MaxChunkChars == 4

----------------------------------------------------------------------------
(* Strings.                                                                *)

Whitespace == {" ", "\n"}

IsSpace(c) == c \in Whitespace

Run(c, n) == [c |-> c, n |-> n]

EmptyStr == <<>>

(* No PDF at the input path. *)
NoPdf == [exists |-> FALSE, path |-> <<>>, pdfplumber |-> EmptyStr,
          PyPDF2 |-> EmptyStr, pages |-> 0]

(* No call of the tool in progress. *)
NoCall == [op |-> "none"]

(* No file at the output path. *)
NoFile == [exists |-> FALSE, content |-> EmptyStr]

(* TextSummarizer.__init__: the credential and the client built from it. *)
NewSummarizer(api_key) == [api_key |-> api_key, openai_client |-> <<"OpenAI", api_key>>]

(* The state outside summarize_for_video before any call of the tool. *)
OuterInit ==
    /\ pdf = NoPdf
    /\ call = NoCall
    /\ file = NoFile
    /\ audio_files = <<>>
    /\ history = <<>>
    /\ summarizer = NewSummarizer("key")

Space == <<Run(" ", 1)>>

RECURSIVE SumN(_, _, _)
(* The characters in runs lo..hi of s. *)
SumN(s, lo, hi) ==
    IF lo > hi THEN 0
    ELSE IF lo = hi THEN s[lo].n
    ELSE CHOOSE total \in
            {SumN(s, lo, mid) + SumN(s, mid + 1, hi) : mid \in {(lo + hi) \div 2}} : TRUE

Indices(s) == [k \in 1..Len(s) |-> k]

(* Runs t[lo..hi] share a character: they are one run. *)
MergedRuns(t, starts) ==
    LET EndOf(g) == IF g = Len(starts) THEN Len(t) ELSE starts[g + 1] - 1
    IN SubSeq([g \in 1..Len(starts) |->
                  Run(t[starts[g]].c, SumN(t, starts[g], EndOf(g)))],
              1, Len(starts))

(* The indices at which a run of a new character starts. *)
RunStarts(t) == SelectSeq(Indices(t), LAMBDA k : k = 1 \/ t[k].c # t[k - 1].c)

(* The canonical encoding: no empty run, no two adjacent runs of one       *)
(* character.  (The intermediate values are bound as elements of          *)
(* singleton sets, which evaluates each of them once, also under ENABLED.) *)
Norm(s) ==
    CHOOSE out \in
        UNION {{MergedRuns(t, starts) : starts \in {RunStarts(t)}} :
                    t \in {SelectSeq(s, LAMBDA r : r.n > 0)}} : TRUE

Cat(s, t) == Norm(s \o t)

(* len(s) *)
StrLen(s) == SumN(s, 1, Len(s))

RECURSIVE LStrip(_)
LStrip(s) ==
    IF s = <<>> THEN <<>>
    ELSE IF IsSpace(s[1].c) THEN LStrip(Tail(s)) ELSE s

RECURSIVE RStrip(_)
RStrip(s) ==
    IF s = <<>> THEN <<>>
    ELSE IF IsSpace(s[Len(s)].c) THEN RStrip(SubSeq(s, 1, Len(s) - 1)) ELSE s

(* s.strip() *)
Strip(s) == RStrip(LStrip(s))

WordStarts(t) ==
    SelectSeq(Indices(t), LAMBDA k : ~IsSpace(t[k].c) /\ (k = 1 \/ IsSpace(t[k - 1].c)))

WordEnds(t) ==
    SelectSeq(Indices(t), LAMBDA k : ~IsSpace(t[k].c) /\ (k = Len(t) \/ IsSpace(t[k + 1].c)))

WordsBetween(t, first, last) ==
    SubSeq([w \in 1..Len(first) |-> SubSeq(t, first[w], last[w])], 1, Len(first))

(* s.split(): the maximal runs of non-whitespace characters, in order. *)
SplitWords(s) ==
    CHOOSE out \in
        UNION {{WordsBetween(t, first, last) :
                    first \in {WordStarts(t)}, last \in {WordEnds(t)}} :
                    t \in {Norm(s)}} : TRUE

RECURSIVE JoinSp(_)
(* ' '.join(parts) *)
JoinSp(parts) ==
    IF parts = <<>> THEN EmptyStr
    ELSE IF Len(parts) = 1 THEN Norm(parts[1])
    ELSE Cat(parts[1], Cat(Space, JoinSp(Tail(parts))))

(* len(s.split()) *)
WordCount(s) == Len(SplitWords(s))

----------------------------------------------------------------------------
(* The chunker: TextSummarizer._split_text_into_chunks, and the identical  *)
(* VoiceGenerator._split_text_into_chunks.                                 *)

(* Mutation: the test looks at the chunk alone, not at the coming word. *)
ChunkIsFullIgnoresWord(current_length, word, max_len, current_chunk) ==
    current_length > max_len /\ current_chunk # <<>>

(* Mutation: the separating space is left out of the test. *)
ChunkIsFullNoSeparator(current_length, word, max_len, current_chunk) ==
    current_length + StrLen(word) > max_len /\ current_chunk # <<>>

(* The test that closes the current chunk before `word`. *)
ChunkIsFull(current_length, word, max_len, current_chunk) ==
    current_length + StrLen(word) + 1 > max_len /\ current_chunk # <<>>

(* Mutation: the word that closes a chunk is not carried into the next. *)
NewChunkDropsWord(word) == <<>>

(* current_chunk = [word] *)
NewChunk(word) == <<word>>

(* current_length = len(word) *)
LengthOfNewChunk(word) == StrLen(word)

(* current_length += len(word) + 1 *)
LengthAfterAppend(current_length, word) == current_length + StrLen(word) + 1

RECURSIVE ChunkLoop(_, _, _, _, _, _)
(* The for loop over words, then the flush of the last chunk. *)
ChunkLoop(words, k, out, current_chunk, current_length, max_len) ==
    IF k > Len(words)
    THEN IF current_chunk # <<>> THEN Append(out, JoinSp(current_chunk)) ELSE out
    ELSE LET word == words[k] IN
         IF ChunkIsFull(current_length, word, max_len, current_chunk)
         THEN ChunkLoop(words, k + 1, Append(out, JoinSp(current_chunk)),
                        NewChunk(word), LengthOfNewChunk(word), max_len)
         ELSE ChunkLoop(words, k + 1, out, Append(current_chunk, word),
                        LengthAfterAppend(current_length, word), max_len)

(* Mutation: the chunk still open when the words run out is not flushed. *)
SplitTextIntoChunksNoFlush(t, max_len) ==
    LET all == ChunkLoop(SplitWords(t), 1, <<>>, <<>>, 0, max_len)
    IN SubSeq(all, 1, Len(all) - 1)

(* Mutation: the last chunk is flushed even when it holds no word. *)
SplitTextIntoChunksFlushesEmpty(t, max_len) ==
    IF SplitWords(t) = <<>>
    THEN <<EmptyStr>>
    ELSE ChunkLoop(SplitWords(t), 1, <<>>, <<>>, 0, max_len)

SplitTextIntoChunks(t, max_len) ==
    ChunkLoop(SplitWords(t), 1, <<>>, <<>>, 0, max_len)

----------------------------------------------------------------------------
(* The chunker applied to every small text and every small limit.          *)

Letters == {"a"}

ChunkAlphabet == Letters \cup {" "}

ChunkRuns == {Run(c, n) : c \in ChunkAlphabet, n \in 1..MaxRunLen}

RECURSIVE TextsOfRuns(_)
(* The canonical strings of exactly k runs over ChunkAlphabet. *)
TextsOfRuns(k) ==
    IF k = 0 THEN {<<>>}
    ELSE {Append(p[1], p[2]) :
            p \in {q \in TextsOfRuns(k - 1) \X ChunkRuns :
                     Len(q[1]) = 0 \/ q[1][Len(q[1])].c # q[2].c}}

ChunkTexts == UNION {TextsOfRuns(k) : k \in 0..MaxRuns}

NoResult == [kind |-> "none"]

InitChunk ==
    /\ text \in ChunkTexts
    /\ max_length \in 1..MaxChunkChars
    /\ pc = "split"
    /\ chunks = <<>>
    /\ duration = 0
    /\ cleaned = EmptyStr
    /\ target = 0
    /\ i = 1
    /\ summaries = <<>>
    /\ combined = EmptyStr
    /\ requests = <<>>
    /\ result = NoResult
    /\ error = "none"
    /\ OuterInit

SplitText ==
    /\ pc = "split"
    /\ chunks' = SplitTextIntoChunks(text, max_length)
    /\ pc' = "split_done"
    /\ UNCHANGED <<text, duration, max_length, cleaned, target, i, summaries,
                   combined, requests, result, error,
                   outer>>

NextChunk == SplitText

SpecChunk == InitChunk /\ [][NextChunk]_vars

----------------------------------------------------------------------------
(* TextSummarizer._clean_text.                                             *)

UpperCase ==
    <<"A", "B", "C", "D", "E", "F", "G", "H", "I", "J", "K", "L", "M",
      "N", "O", "P", "Q", "R", "S", "T", "U", "V", "W", "X", "Y", "Z">>

LowerCase ==
    <<"a", "b", "c", "d", "e", "f", "g", "h", "i", "j", "k", "l", "m",
      "n", "o", "p", "q", "r", "s", "t", "u", "v", "w", "x", "y", "z">>

IsUpper(c) == \E k \in 1..Len(UpperCase) : UpperCase[k] = c

IsLetter(c) == IsUpper(c) \/ \E k \in 1..Len(LowerCase) : LowerCase[k] = c

LetterChars == {LowerCase[k] : k \in 1..Len(LowerCase)} \cup {UpperCase[k] : k \in 1..Len(UpperCase)}

Digits == {"0", "1", "2", "3", "4", "5", "6", "7", "8", "9"}

(* \w *)
IsWordChar(c) == c \in LetterChars \cup Digits \cup {"_"}

(* The punctuation the second substitution keeps. *)
KeptPunctuation == {".", ",", "!", "?", ";", ":", "-", "(", ")", "[", "]", "\"", "'"}

IsKept(c) == IsWordChar(c) \/ IsSpace(c) \/ c \in KeptPunctuation

RECURSIVE CollapseWhitespaceKeepsNewlines(_)
(* Mutation: only the runs of blanks are collapsed, newlines are kept. *)
CollapseWhitespaceKeepsNewlines(s) ==
    IF s = <<>> THEN <<>>
    ELSE IF s[1].c = " " THEN Space \o CollapseWhitespaceKeepsNewlines(Tail(s))
    ELSE <<s[1]>> \o CollapseWhitespaceKeepsNewlines(Tail(s))

RECURSIVE CollapseWhitespace(_)
(* re.sub(r'\s+', ' ', text) *)
CollapseWhitespace(s) ==
    IF s = <<>> THEN <<>>
    ELSE IF IsSpace(s[1].c) THEN Space \o CollapseWhitespace(LStrip(Tail(s)))
    ELSE <<s[1]>> \o CollapseWhitespace(Tail(s))

(* re.sub(r'[^\w\s\.\,\!\?\;\:\-\(\)\[\]\"\']', '', text) *)
RemoveArtifacts(s) == Norm(SelectSeq(s, LAMBDA r : IsKept(r.c)))

RECURSIVE DigitSuffixStart(_, _)
(* The index at which the digits ending s[1..k] begin (k + 1 when s[k] is  *)
(* no digit).                                                              *)
DigitSuffixStart(s, k) ==
    IF k >= 1 /\ s[k].c \in Digits THEN DigitSuffixStart(s, k - 1) ELSE k + 1

(* re.sub(r'\b\d+\b(?=\s*$)', '', text, flags=re.MULTILINE): the text has  *)
(* no newline left, so the only match is a number that ends the text       *)
(* before its trailing whitespace and does not continue a word.            *)
RemoveTrailingNumber(s) ==
    LET body == RStrip(s)
        trailing == SubSeq(s, Len(body) + 1, Len(s))
        d == DigitSuffixStart(body, Len(body))
    IN IF d <= Len(body) /\ (d = 1 \/ ~IsWordChar(body[d - 1].c))
       THEN Norm(SubSeq(body, 1, d - 1) \o trailing)
       ELSE s

CleanText(t) == Strip(RemoveTrailingNumber(RemoveArtifacts(CollapseWhitespace(t))))

----------------------------------------------------------------------------
(* TextSummarizer._extract_key_points.                                     *)

(* The string of the given characters. *)
Chars(cs) == Norm(SubSeq([k \in 1..Len(cs) |-> Run(cs[k], 1)], 1, Len(cs)))

ToLower(c) ==
    IF IsUpper(c)
    THEN LowerCase[CHOOSE k \in 1..Len(UpperCase) : UpperCase[k] = c]
    ELSE c

(* s.lower() *)
Lower(s) == Norm(SubSeq([k \in 1..Len(s) |-> Run(ToLower(s[k].c), s[k].n)], 1, Len(s)))

(* word in s, for canonical strings and a non-empty word: the first and    *)
(* the last run of the word lie within runs of s, the runs between them    *)
(* are runs of s.                                                          *)
Contains(s, word) ==
    LET m == Len(word) IN
    \E j \in 1..(Len(s) - m + 1) :
        /\ s[j].c = word[1].c /\ s[j].n >= word[1].n
        /\ s[j + m - 1].c = word[m].c /\ s[j + m - 1].n >= word[m].n
        /\ \A k \in 2..(m - 1) : s[j + k - 1] = word[k]

(* [.!?] *)
IsTerminator(c) == c \in {".", "!", "?"}

TerminatorStarts(t) ==
    SelectSeq(Indices(t), LAMBDA k : IsTerminator(t[k].c) /\ (k = 1 \/ ~IsTerminator(t[k - 1].c)))

TerminatorEnds(t) ==
    SelectSeq(Indices(t), LAMBDA k : IsTerminator(t[k].c) /\ (k = Len(t) \/ ~IsTerminator(t[k + 1].c)))

(* The pieces before, between and after the runs of terminators: one more  *)
(* than there are runs, the empty pieces at the ends included.             *)
PiecesBetween(t, first, last) ==
    SubSeq([p \in 1..(Len(first) + 1) |->
                SubSeq(t, IF p = 1 THEN 1 ELSE last[p - 1] + 1,
                          IF p = Len(first) + 1 THEN Len(t) ELSE first[p] - 1)],
           1, Len(first) + 1)

(* re.split(r'[.!?]+', summary) *)
SplitSentences(s) ==
    CHOOSE out \in
        UNION {{PiecesBetween(t, first, last) :
                    first \in {TerminatorStarts(t)}, last \in {TerminatorEnds(t)}} :
                    t \in {Norm(s)}} : TRUE

important_words ==
    << Chars(<<"i", "m", "p", "o", "r", "t", "a", "n", "t">>),
       Chars(<<"k", "e", "y">>),
       Chars(<<"m", "a", "i", "n">>),
       Chars(<<"p", "r", "i", "m", "a", "r", "y">>),
       Chars(<<"e", "s", "s", "e", "n", "t", "i", "a", "l">>),
       Chars(<<"c", "r", "i", "t", "i", "c", "a", "l">>),
       Chars(<<"s", "i", "g", "n", "i", "f", "i", "c", "a", "n", "t">>),
       Chars(<<"m", "a", "j", "o", "r">>),
       Chars(<<"c", "o", "r", "e">>),
       Chars(<<"f", "u", "n", "d", "a", "m", "e", "n", "t", "a", "l">>) >>

(* any(word in sentence.lower() for word in important_words) *)
HasImportantWord(sentence) ==
    \E lowered \in {Lower(sentence)} :
        \E k \in 1..Len(important_words) : Contains(lowered, important_words[k])

(* Mutation: the two lengths at the ends of the range qualify. *)
IsGoodLengthInclusive(sentence) == StrLen(sentence) >= 20 /\ StrLen(sentence) <= 100

(* len(sentence) > 20 and len(sentence) < 100 *)
IsGoodLength(sentence) == StrLen(sentence) > 20 /\ StrLen(sentence) < 100

(* The limit of the elif and of the final slice. *)
key_point_limit == 5

(* The body of the loop: the list after one stripped sentence. *)
AddKeyPoint(key_points, sentence) ==
    IF IsGoodLength(sentence)
    THEN IF HasImportantWord(sentence)
         THEN Append(key_points, sentence)
         ELSE IF Len(key_points) < key_point_limit
              THEN Append(key_points, sentence)
              ELSE key_points
    ELSE key_points

RECURSIVE KeyPointLoop(_, _, _)
(* The for loop over the sentences.  (Each value is bound as the element   *)
(* of a singleton set, see Norm.)                                          *)
KeyPointLoop(sentences, k, key_points) ==
    IF k > Len(sentences) THEN key_points
    ELSE CHOOSE out \in
            {KeyPointLoop(sentences, k + 1, next) :
                next \in {AddKeyPoint(key_points, sentence) :
                            sentence \in {Strip(sentences[k])}}} : TRUE

(* key_points[:5] *)
FirstN(q, n) == SubSeq(q, 1, IF Len(q) < n THEN Len(q) ELSE n)

ExtractKeyPoints(summary) ==
    CHOOSE out \in
        {FirstN(key_points, key_point_limit) :
            key_points \in {KeyPointLoop(sentences, 1, <<>>) :
                              sentences \in {SplitSentences(summary)}}} : TRUE

----------------------------------------------------------------------------
(* TextSummarizer._extract_key_topics.                                     *)

WordCharStarts(t) ==
    SelectSeq(Indices(t), LAMBDA k : IsWordChar(t[k].c) /\ (k = 1 \/ ~IsWordChar(t[k - 1].c)))

WordCharEnds(t) ==
    SelectSeq(Indices(t), LAMBDA k : IsWordChar(t[k].c) /\ (k = Len(t) \/ ~IsWordChar(t[k + 1].c)))

(* [A-Za-z]{4,} over a whole run of word characters. *)
IsLongAlphabetic(w) == StrLen(w) >= 4 /\ \A k \in 1..Len(w) : IsLetter(w[k].c)

(* re.findall(r'\b[A-Za-z]{4,}\b', text): a match starts and ends at a     *)
(* word boundary, so it is a maximal run of word characters, and the run   *)
(* holds letters only, four or more.                                       *)
FindLongWords(s) ==
    CHOOSE out \in
        UNION {{SelectSeq(WordsBetween(t, first, last), IsLongAlphabetic) :
                    first \in {WordCharStarts(t)}, last \in {WordCharEnds(t)}} :
                    t \in {Norm(s)}} : TRUE

stop_words ==
    {
      Chars(<<"t", "h", "i", "s">>), Chars(<<"t", "h", "a", "t">>),
      Chars(<<"w", "i", "t", "h">>), Chars(<<"h", "a", "v", "e">>),
      Chars(<<"w", "i", "l", "l">>), Chars(<<"f", "r", "o", "m">>),
      Chars(<<"t", "h", "e", "y">>), Chars(<<"b", "e", "e", "n">>),
      Chars(<<"w", "e", "r", "e">>), Chars(<<"s", "a", "i", "d">>),
      Chars(<<"e", "a", "c", "h">>), Chars(<<"w", "h", "i", "c", "h">>),
      Chars(<<"t", "h", "e", "i", "r">>), Chars(<<"t", "i", "m", "e">>),
      Chars(<<"w", "o", "u", "l", "d">>), Chars(<<"t", "h", "e", "r", "e">>),
      Chars(<<"c", "o", "u", "l", "d">>), Chars(<<"o", "t", "h", "e", "r">>),
      Chars(<<"a", "f", "t", "e", "r">>), Chars(<<"f", "i", "r", "s", "t">>),
      Chars(<<"w", "e", "l", "l">>), Chars(<<"a", "l", "s", "o">>),
      Chars(<<"n", "e", "w">>), Chars(<<"w", "a", "n", "t">>),
      Chars(<<"b", "e", "c", "a", "u", "s", "e">>), Chars(<<"a", "n", "y">>),
      Chars(<<"t", "h", "e", "s", "e">>), Chars(<<"g", "i", "v", "e">>),
      Chars(<<"d", "a", "y">>), Chars(<<"m", "o", "s", "t">>),
      Chars(<<"u", "s">>), Chars(<<"i", "s">>), Chars(<<"a", "r", "e">>),
      Chars(<<"w", "a", "s">>), Chars(<<"b", "e">>),
      Chars(<<"b", "e", "i", "n", "g">>), Chars(<<"h", "a", "s">>),
      Chars(<<"h", "a", "d">>), Chars(<<"d", "o">>),
      Chars(<<"d", "o", "e", "s">>), Chars(<<"d", "i", "d">>),
      Chars(<<"s", "h", "o", "u", "l", "d">>), Chars(<<"m", "a", "y">>),
      Chars(<<"m", "i", "g", "h", "t">>), Chars(<<"m", "u", "s", "t">>),
      Chars(<<"c", "a", "n">>), Chars(<<"s", "h", "a", "l", "l">>)
    }

(* word not in stop_words and len(word) > 3 *)
IsTopicWord(word) == word \notin stop_words /\ StrLen(word) > 3

(* word_freq.items(): each word once, in the order of its first            *)
(* occurrence, with the number of its occurrences.                         *)
WordFreq(words) ==
    LET firsts == SelectSeq(Indices(words), LAMBDA k : \A j \in 1..(k - 1) : words[j] # words[k])
    IN SubSeq([p \in 1..Len(firsts) |->
                  <<words[firsts[p]],
                    Cardinality({k \in 1..Len(words) : words[k] = words[firsts[p]]})>>],
              1, Len(firsts))

(* Mutation: of two items of one count the later one comes first. *)
InsertByCountTiesReversed(sorted, item) ==
    LET before == SelectSeq(sorted, LAMBDA x : x[2] > item[2])
    IN before \o <<item>> \o SubSeq(sorted, Len(before) + 1, Len(sorted))

(* The place of an item in a list sorted by descending count: after every  *)
(* item of a greater or an equal count (the sort is stable).               *)
InsertByCount(sorted, item) ==
    LET before == SelectSeq(sorted, LAMBDA x : x[2] >= item[2])
    IN before \o <<item>> \o SubSeq(sorted, Len(before) + 1, Len(sorted))

RECURSIVE SortedByCount(_, _, _)
(* sorted(items, key=lambda x: x[1], reverse=True) *)
SortedByCount(items, k, sorted) ==
    IF k > Len(items) THEN sorted
    ELSE CHOOSE out \in
            {SortedByCount(items, k + 1, next) :
                next \in {InsertByCount(sorted, items[k])}} : TRUE

(* The limit of the final slice. *)
key_topic_limit == 10

(* The words that count, in text order. *)
TopicWords(t) ==
    CHOOSE out \in
        UNION {{SelectSeq(found, IsTopicWord) : found \in {FindLongWords(lowered)}} :
                    lowered \in {Lower(t)}} : TRUE

ExtractKeyTopics(t) ==
    CHOOSE out \in
        UNION {UNION {{FirstN(sorted, key_topic_limit) :
                          sorted \in {SortedByCount(items, 1, <<>>)}} :
                          items \in {WordFreq(words)}} :
                          words \in {TopicWords(t)}} : TRUE

----------------------------------------------------------------------------
(* TextSummarizer._extract_sections.                                       *)

RECURSIVE Expand(_)
(* The characters of a string, one by one. *)
Expand(s) ==
    IF s = <<>> THEN <<>>
    ELSE SubSeq([k \in 1..s[1].n |-> s[1].c], 1, s[1].n) \o Expand(Tail(s))

IsDigit(c) == c \in Digits

(* [A-Z\s] *)
IsUpperOrSpace(c) == IsUpper(c) \/ IsSpace(c)

(* [^.\n] *)
IsTitleChar(c) == c # "." /\ c # "\n"

(* The character classes of the three patterns, by their regex names. *)
InClass(c, class) ==
    IF class = "\\s" THEN IsSpace(c)
    ELSE IF class = "\\d" THEN IsDigit(c)
    ELSE IF class = "[A-Z\\s]" THEN IsUpperOrSpace(c)
    ELSE IsTitleChar(c)

(* A greedy repetition from index p: the first index at or after p whose   *)
(* character is not in the class (one past the end when there is none).    *)
SkipWhile(cs, p, class) ==
    CHOOSE q \in p..(Len(cs) + 1) :
        /\ q = Len(cs) + 1 \/ ~InClass(cs[q], class)
        /\ \A j \in p..(q - 1) : InClass(cs[j], class)

(* \n\s*\d+\.\s+[A-Z][^.\n]* matched at the newline cs[p]: the index       *)
(* after the match, 0 when there is no match.  No repetition can give back *)
(* a character to the element that follows it, so greedy is the only way.  *)
NumberedEnd(cs, p) ==
    LET d == SkipWhile(cs, p + 1, "\\s")
        dot == SkipWhile(cs, d, "\\d")
        cap == SkipWhile(cs, dot + 1, "\\s")
    IN IF /\ dot > d /\ dot <= Len(cs) /\ cs[dot] = "."
          /\ cap > dot + 1 /\ cap <= Len(cs) /\ IsUpper(cs[cap])
       THEN SkipWhile(cs, cap + 1, "[^.\\n]")
       ELSE 0

(* \n\s*[A-Z][A-Z\s]+: matched at the newline cs[p]. *)
AllCapsEnd(cs, p) ==
    LET first == SkipWhile(cs, p + 1, "\\s")
        colon == SkipWhile(cs, first + 1, "[A-Z\\s]")
    IN IF /\ first <= Len(cs) /\ IsUpper(cs[first])
          /\ colon > first + 1 /\ colon <= Len(cs) /\ cs[colon] = ":"
       THEN colon + 1
       ELSE 0

(* \n\s*[A-Z][^.\n]*\n(?=[A-Z]) matched at the newline cs[p]. *)
TitleCaseEnd(cs, p) ==
    LET first == SkipWhile(cs, p + 1, "\\s")
        nl == SkipWhile(cs, first + 1, "[^.\\n]")
    IN IF /\ first <= Len(cs) /\ IsUpper(cs[first])
          /\ nl <= Len(cs) /\ cs[nl] = "\n"
          /\ nl + 1 <= Len(cs) /\ IsUpper(cs[nl + 1])
       THEN nl + 1
       ELSE 0

(* section_patterns, by index. *)
PatternEnd(cs, p, pattern) ==
    IF cs[p] # "\n" THEN 0
    ELSE IF pattern = 1 THEN NumberedEnd(cs, p)
    ELSE IF pattern = 2 THEN AllCapsEnd(cs, p)
    ELSE TitleCaseEnd(cs, p)

section_patterns == <<1, 2, 3>>

RECURSIVE FindSections(_, _, _)
(* re.finditer(pattern, text): the leftmost match at or after index p, and *)
(* on from its end; each as {'title': match.group().strip(), 'position':   *)
(* match.start()}.                                                         *)
FindSections(cs, p, pattern) ==
    IF p > Len(cs) THEN <<>>
    ELSE LET e == PatternEnd(cs, p, pattern) IN
         IF e = 0 THEN FindSections(cs, p + 1, pattern)
         ELSE <<[title |-> Strip(Chars(SubSeq(cs, p, e - 1))), position |-> p - 1]>>
              \o FindSections(cs, e, pattern)

RECURSIVE AllSections(_, _)
(* The two for loops: the matches of the first pattern, then of the       *)
(* second, then of the third.                                              *)
AllSections(cs, k) ==
    IF k > Len(section_patterns) THEN <<>>
    ELSE FindSections(cs, 1, section_patterns[k]) \o AllSections(cs, k + 1)

(* The limit of the final slice. *)
section_limit == 10

(* Every pattern starts with a newline: a text without one has no match.   *)
ExtractSections(t) ==
    IF \A k \in 1..Len(t) : t[k].c # "\n" THEN <<>>
    ELSE CHOOSE out \in
            UNION {{FirstN(sections, section_limit) : sections \in {AllSections(cs, 1)}} :
                        cs \in {Expand(t)}} : TRUE

----------------------------------------------------------------------------
(* TextSummarizer.summarize_for_video and _create_openai_summary.          *)

words_per_minute == 155

max_chunk_length == 12000

MIN_TEXT_LENGTH == 100

(* Mutation: the rate is the round figure of 150 words a minute. *)
CalculateTargetWordCountRoundRate(duration_minutes) == duration_minutes * 150

(* duration_minutes * words_per_minute *)
CalculateTargetWordCount(duration_minutes) == duration_minutes * words_per_minute

(* Mutation: the comparison admits the boundary. *)
NeedsShortenAtBoundary(combined_summary, target_word_count) ==
    10 * WordCount(combined_summary) >= 12 * target_word_count

(* len(combined_summary.split()) > target_word_count * 1.2, in tenths:     *)
(* target_word_count is an integer, and for the integers of the model the  *)
(* float product is the exact one.                                         *)
NeedsShorten(combined_summary, target_word_count) ==
    10 * WordCount(combined_summary) > 12 * target_word_count

RECURSIVE Reversed(_)
Reversed(q) == IF q = <<>> THEN <<>> ELSE Append(Reversed(Tail(q)), q[1])

(* Mutation: the summaries are combined last chunk first. *)
CombineReversed(sums) == JoinSp(Reversed(sums))

(* combined_summary = ' '.join(summaries) *)
Combine(sums) == JoinSp(sums)

(* Mutation: the shortened summary is length-checked again. *)
PcAfterShortenRecheck == "loop"

(* After the Shorten response: return combined_summary. *)
PcAfterShorten == "done"

(* Mutation: the exception is swallowed and the loop goes on. *)
PcOnRequestFailureRetry == "loop"

(* A failed request: both except clauses re-raise. *)
PcOnRequestFailure == "failed"

(* What the model collaborator did with a request. *)
Pending == [status |-> "pending", content |-> EmptyStr]

Failed == [status |-> "failed", content |-> EmptyStr]

Ok(s) == [status |-> "ok", content |-> s]

(* The ceiling of the per-chunk response length, in tokens. *)
OPENAI_MAX_TOKENS == 1000

(* Mutation: the cap follows the target and has no ceiling. *)
ChunkMaxTokensNoCeiling(target_word_count) == 3 * target_word_count

(* max_tokens=min(1000, target_word_count * 1.5), counted in half tokens:  *)
(* the product is a float with a fractional part of 0 or .5, which twice   *)
(* the value keeps as an integer.                                          *)
ChunkMaxTokens(target_word_count) ==
    IF 2 * OPENAI_MAX_TOKENS <= 3 * target_word_count
    THEN 2 * OPENAI_MAX_TOKENS
    ELSE 3 * target_word_count

(* max_tokens=target_word_count + 200, in half tokens. *)
ShortenMaxTokens(target_word_count) == 2 * (target_word_count + 200)

(* The response-length cap of a request of the kind, in half tokens. *)
MaxTokens(kind, target_word_count) ==
    IF kind = "summarize"
    THEN ChunkMaxTokens(target_word_count)
    ELSE ShortenMaxTokens(target_word_count)

Request(kind, t, target_word_count, duration_minutes) ==
    [kind |-> kind, text |-> t, target_word_count |-> target_word_count,
     duration_minutes |-> duration_minutes,
     max_half_tokens |-> MaxTokens(kind, target_word_count),
     response |-> Pending]

Answered(log, r) == [log EXCEPT ![Len(log)].response = r]

(* k words, each the character c, separated by single spaces. *)
Words(c, k) ==
    SubSeq([j \in 1..(2 * k - 1) |-> IF j % 2 = 1 THEN Run(c, 1) ELSE Run(" ", 1)],
           1, 2 * k - 1)

(* The texts the model collaborator answers with. *)
ResponseTexts ==
    { EmptyStr,
      <<Run("\n", 1), Run(" ", 2)>>,
      <<Run(" ", 1), Run("b", 2), Run("\n", 1)>>,
      Words("a", 93),
      Words("b", 94),
      Words("a", 187) }

(* The input texts. *)
Documents ==
    { EmptyStr,
      <<Run(" ", 1), Run("#", 2), Run("\n", 1), Run("7", 2)>>,
      <<Run("a", 44), Run("\n", 1), Run("A", 1), Run("B", 1), Run(":", 1),
        Run("\n", 1), Run("B", 1)>>,
      <<Run(" ", 2), Run("a", 5999), Run("\n", 2), Run("b", 5999), Run(" ", 1)>>,
      <<Run("a", 6000), Run(" ", 1), Run("b", 6000)>>,
      <<Run("a", 12000), Run(" ", 1), Run("b", 12001), Run(" ", 1), Run("a", 3),
        Run("#", 1), Run(" ", 1), Run("7", 2)>> }

Durations == {-1, 0, 1, 5}

Init ==
    /\ pc = "idle"
    /\ text = EmptyStr
    /\ duration = 0
    /\ max_length = max_chunk_length
    /\ cleaned = EmptyStr
    /\ target = 0
    /\ chunks = <<>>
    /\ i = 1
    /\ summaries = <<>>
    /\ combined = EmptyStr
    /\ requests = <<>>
    /\ result = NoResult
    /\ error = "none"
    /\ OuterInit

(* Mutation: the list of an earlier call is appended to. *)
NewSummariesKept(previous) == previous

(* summaries = []: a new list, whatever an earlier call left. *)
NewSummaries(previous) == <<>>

(* summarize_for_video up to the first model request: clean the text,      *)
(* compute the target, split the cleaned text into chunks.                 *)
EnterSummarizeForVideo(t, d) ==
    /\ pc = "idle"
    /\ text' = t
    /\ duration' = d
    /\ cleaned' = CleanText(t)
    /\ target' = CalculateTargetWordCount(d)
    /\ chunks' = SplitTextIntoChunks(CleanText(t), max_length)
    /\ summaries' = NewSummaries(summaries)
    /\ i' = 1
    /\ pc' = "loop"
    /\ UNCHANGED <<max_length, combined, requests, result, error>>

(* summarize_for_video called on its own. *)
SummarizeForVideo(t, d) ==
    /\ EnterSummarizeForVideo(t, d)
    /\ UNCHANGED outer

(* The loop body up to the blocking call: one request for chunk i. *)
IssueChunkRequest ==
    /\ pc = "loop"
    /\ i <= Len(chunks)
    /\ requests' = Append(requests, Request("summarize", chunks[i], target, duration))
    /\ pc' = "await"
    /\ UNCHANGED <<text, duration, max_length, cleaned, target, chunks, i,
                   summaries, combined, result, error,
                   outer>>

(* The call returns: the stripped content joins the summaries. *)
ReceiveChunkResponse(r) ==
    /\ pc = "await"
    /\ requests' = Answered(requests, Ok(r))
    /\ summaries' = Append(summaries, Strip(r))
    /\ i' = i + 1
    /\ pc' = "loop"
    /\ UNCHANGED <<text, duration, max_length, cleaned, target, chunks,
                   combined, result, error,
                   outer>>

(* After the last chunk: combine, check the length, and either ask for a   *)
(* shorter version or return the combined summary.                         *)
CheckLength ==
    /\ pc = "loop"
    /\ i > Len(chunks)
    /\ combined' = Combine(summaries)
    /\ IF NeedsShorten(Combine(summaries), target)
       THEN /\ requests' = Append(requests,
                                  Request("shorten", Combine(summaries), target, duration))
            /\ pc' = "shorten_await"
       ELSE /\ requests' = requests
            /\ pc' = "done"
    /\ UNCHANGED <<text, duration, max_length, cleaned, target, chunks, i,
                   summaries, result, error,
                   outer>>

(* The Shorten call returns: its stripped content is the summary. *)
ReceiveShortenResponse(r) ==
    /\ pc = "shorten_await"
    /\ requests' = Answered(requests, Ok(r))
    /\ combined' = Strip(r)
    /\ pc' = PcAfterShorten
    /\ UNCHANGED <<text, duration, max_length, cleaned, target, chunks, i,
                   summaries, result, error,
                   outer>>

(* The call raises: the exception leaves _create_openai_summary and        *)
(* summarize_for_video.                                                    *)
RequestFails ==
    /\ pc \in {"await", "shorten_await"}
    /\ requests' = Answered(requests, Failed)
    /\ error' = "request_failed"
    /\ pc' = PcOnRequestFailure
    /\ UNCHANGED <<text, duration, max_length, cleaned, target, chunks, i,
                   summaries, combined, result,
                   outer>>

(* The local words_per_minute of _estimate_reading_time. *)
reading_words_per_minute == 155

(* Mutation: round() without its second argument, to whole minutes. *)
EstimateReadingTimeWholeMinutes(t) ==
    10 * ((2 * WordCount(t) + reading_words_per_minute) \div (2 * reading_words_per_minute))

(* round(word_count / words_per_minute, 1), in tenths of a minute.  No     *)
(* quotient lies half way between two tenths (4 * word_count is even,     *)
(* 31 * (2k + 1) is odd), so round() yields the nearest tenth.            *)
EstimateReadingTime(t) ==
    (20 * WordCount(t) + reading_words_per_minute) \div (2 * reading_words_per_minute)

(* The four metrics of _calculate_reading_metrics, in the order of their   *)
(* computation.                                                            *)
MetricNames ==
    <<"flesch_reading_ease", "flesch_kincaid_grade",
      "automated_readability_index", "coleman_liau_index">>

(* The outcomes of the scorer: no metric raises, or the named one does. *)
ScorerOutcomes == {"none"} \cup {MetricNames[k] : k \in 1..Len(MetricNames)}

(* textstat's value of a metric for a text: a function of the two. *)
Score(metric, t) == [metric |-> metric, of |-> t]

(* Mutation: the metrics computed before the one that raises are kept. *)
CalculateReadingMetricsPartial(t, raising) ==
    {<<MetricNames[k], Score(MetricNames[k], t)>> :
        k \in {j \in 1..Len(MetricNames) :
                 \A h \in 1..j : MetricNames[h] # raising}}

(* The mapping of metric names to scores, as a set of pairs; the empty     *)
(* mapping when a metric raises.                                           *)
CalculateReadingMetrics(t, raising) ==
    IF raising = "none"
    THEN {<<MetricNames[k], Score(MetricNames[k], t)>> : k \in 1..Len(MetricNames)}
    ELSE {}

(* The result record of summarize_for_video; estimated_duration_minutes   *)
(* is held in tenths of a minute.                                          *)
ResultRecord(summary, raising) ==
    [kind |-> "record",
     summary |-> summary,
     key_points |-> ExtractKeyPoints(summary),
     key_topics |-> ExtractKeyTopics(cleaned),
     sections |-> ExtractSections(cleaned),
     word_count |-> WordCount(summary),
     target_word_count |-> target,
     estimated_duration_minutes |-> EstimateReadingTime(summary),
     reading_metrics |-> CalculateReadingMetrics(summary, raising),
     original_word_count |-> WordCount(text),
     summarization_method |-> "openai"]

(* Back in summarize_for_video: an empty summary raises; any other is      *)
(* scored, where a metric may raise, and returned in the record.           *)
ReturnResult(raising) ==
    /\ pc = "done"
    /\ IF combined = EmptyStr
       THEN /\ error' = "empty_summary"
            /\ pc' = "failed"
            /\ result' = result
       ELSE /\ result' = ResultRecord(combined, raising)
            /\ pc' = "returned"
            /\ error' = error
    /\ UNCHANGED <<text, duration, max_length, cleaned, target, chunks, i,
                   summaries, combined, requests,
                   outer>>

RunStep ==
    \/ IssueChunkRequest
    \/ \E r \in ResponseTexts : ReceiveChunkResponse(r)
    \/ CheckLength
    \/ \E r \in ResponseTexts : ReceiveShortenResponse(r)
    \/ RequestFails
    \/ \E raising \in ScorerOutcomes : ReturnResult(raising)

Next ==
    \/ \E t \in Documents, d \in Durations : SummarizeForVideo(t, d)
    \/ RunStep

Spec == Init /\ [][Next]_vars

(* The call is synchronous: once made, it runs to its return or raise. *)
FairSpec == Spec /\ WF_vars(RunStep)

----------------------------------------------------------------------------
(* The key-point selector applied to summaries of a few sentences.         *)

MaxSentences == 6

(* Four sentences: one of 21 characters with a capitalised keyword, one of *)
(* 99 without a keyword, one of 20 with a keyword, one of 100 without.     *)
SampleSentences ==
    << Chars(<<"T", "h", "i", "s", " ", "i", "s", " ", "a", " ", "K", "e", "y", " ",
               "f", "i", "n", "d", "i", "n", "g">>),
       <<Run("b", 99)>>,
       Cat(Chars(<<"k", "e", "y">>), <<Run("x", 17)>>),
       <<Run("b", 100)>> >>

(* The terminators that close the j-th sentence, and the space after them. *)
SentenceEnd(j) ==
    IF j % 2 = 1 THEN <<Run(".", 1), Run(" ", 1)>>
    ELSE <<Run("!", 1), Run("?", 1), Run(" ", 2)>>

RECURSIVE SummaryOf(_, _)
(* The summary whose sentences are the samples that `shape` names. *)
SummaryOf(shape, j) ==
    IF j > Len(shape) THEN EmptyStr
    ELSE Cat(SampleSentences[shape[j]], Cat(SentenceEnd(j), SummaryOf(shape, j + 1)))

RECURSIVE ShapesOf(_)
ShapesOf(k) ==
    IF k = 0 THEN {<<>>}
    ELSE {Append(q, x) : q \in ShapesOf(k - 1), x \in 1..Len(SampleSentences)}

(* The summaries of up to n sample sentences. *)
SampleSummaries(n) == {SummaryOf(shape, 1) : shape \in UNION {ShapesOf(k) : k \in 0..n}}

InitKeyPoints ==
    /\ text \in SampleSummaries(MaxSentences)
    /\ pc = "select"
    /\ result = NoResult
    /\ max_length = max_chunk_length
    /\ chunks = <<>>
    /\ duration = 0
    /\ cleaned = EmptyStr
    /\ target = 0
    /\ i = 1
    /\ summaries = <<>>
    /\ combined = EmptyStr
    /\ requests = <<>>
    /\ error = "none"
    /\ OuterInit

SelectKeyPoints ==
    /\ pc = "select"
    /\ result' = [kind |-> "key_points", key_points |-> ExtractKeyPoints(text)]
    /\ pc' = "select_done"
    /\ UNCHANGED <<text, duration, max_length, cleaned, target, chunks, i,
                   summaries, combined, requests, error,
                   outer>>

NextKeyPoints == SelectKeyPoints

SpecKeyPoints == InitKeyPoints /\ [][NextKeyPoints]_vars

----------------------------------------------------------------------------
(* The topic extractor applied to texts of a few words.                    *)

MaxTopicWords == 6

(* Two words and the shortest word that counts. *)
SampleWords ==
    << Chars(<<"m", "a", "c", "h", "i", "n", "e">>),
       Chars(<<"l", "e", "a", "r", "n", "i", "n", "g">>),
       Chars(<<"d", "e", "e", "p">>) >>

RECURSIVE TextOfWords(_, _)
(* The sample words that `shape` names, separated by spaces. *)
TextOfWords(shape, j) ==
    IF j > Len(shape) THEN EmptyStr
    ELSE IF j = Len(shape) THEN SampleWords[shape[j]]
    ELSE Cat(SampleWords[shape[j]], Cat(Space, TextOfWords(shape, j + 1)))

RECURSIVE WordShapesOf(_)
WordShapesOf(k) ==
    IF k = 0 THEN {<<>>}
    ELSE {Append(q, x) : q \in WordShapesOf(k - 1), x \in 1..Len(SampleWords)}

(* A text to stand before the sample words: a stop word in capitals, a    *)
(* word of three letters and a word that runs into a digit.                *)
NoTopicWords ==
    Chars(<<"T", "h", "a", "t", " ", "n", "e", "w", " ", "d", "a", "t", "a", "2", ",">>)

(* The same, and ten different words after it, the first one capitalised.  *)
TenWords ==
    NoTopicWords
    \o <<Run("W", 1), Run("w", 3), Run(" ", 1), Run("w", 5), Run(".", 1), Run("w", 6),
         Run(" ", 1), Run("w", 7), Run("\n", 1), Run("w", 8), Run(" ", 1), Run("w", 9),
         Run(" ", 1), Run("w", 10), Run(" ", 1), Run("w", 11), Run(" ", 1), Run("w", 12),
         Run(" ", 1), Run("w", 13), Run(" ", 1)>>

(* The texts of up to n sample words, alone and after each prefix. *)
TopicTexts(n) ==
    {Cat(prefix, TextOfWords(shape, 1)) :
        prefix \in {EmptyStr, NoTopicWords, TenWords},
        shape \in UNION {WordShapesOf(k) : k \in 0..n}}

InitTopics ==
    /\ text \in TopicTexts(MaxTopicWords)
    /\ pc = "topics"
    /\ result = NoResult
    /\ max_length = max_chunk_length
    /\ chunks = <<>>
    /\ duration = 0
    /\ cleaned = EmptyStr
    /\ target = 0
    /\ i = 1
    /\ summaries = <<>>
    /\ combined = EmptyStr
    /\ requests = <<>>
    /\ error = "none"
    /\ OuterInit

ExtractTopics ==
    /\ pc = "topics"
    /\ result' = [kind |-> "key_topics", key_topics |-> ExtractKeyTopics(text)]
    /\ pc' = "topics_done"
    /\ UNCHANGED <<text, duration, max_length, cleaned, target, chunks, i,
                   summaries, combined, requests, error,
                   outer>>

NextTopics == ExtractTopics

SpecTopics == InitTopics /\ [][NextTopics]_vars

----------------------------------------------------------------------------
(* The section detector applied to texts of a few lines.                   *)

MaxLines == 3

(* A numbered heading after a blank, a heading in capitals, a line in      *)
(* title case, and a sentence.                                             *)
SampleLines ==
    << Chars(<<" ", "1", ".", " ", "A", "b">>),
       Chars(<<"A", "B", ":">>),
       Chars(<<"A", "b", " ", "c">>),
       Chars(<<"a", "b", ".">>) >>

RECURSIVE TextOfLines(_, _)
(* The sample lines that `shape` names, each after a newline. *)
TextOfLines(shape, j) ==
    IF j > Len(shape) THEN EmptyStr
    ELSE Cat(<<Run("\n", 1)>>, Cat(SampleLines[shape[j]], TextOfLines(shape, j + 1)))

RECURSIVE LineShapesOf(_)
LineShapesOf(k) ==
    IF k = 0 THEN {<<>>}
    ELSE {Append(q, x) : q \in LineShapesOf(k - 1), x \in 1..Len(SampleLines)}

(* A text to stand before the sample lines: eleven headings in capitals.   *)
ElevenHeadings == TextOfLines(<<2, 2, 2, 2, 2, 2, 2, 2, 2, 2, 2>>, 1)

(* The texts of up to n sample lines, alone and after eleven headings. *)
SectionTexts(n) ==
    {Cat(prefix, TextOfLines(shape, 1)) :
        prefix \in {EmptyStr, ElevenHeadings},
        shape \in UNION {LineShapesOf(k) : k \in 0..n}}

InitSections ==
    /\ text \in SectionTexts(MaxLines)
    /\ pc = "sections"
    /\ result = NoResult
    /\ max_length = max_chunk_length
    /\ chunks = <<>>
    /\ duration = 0
    /\ cleaned = EmptyStr
    /\ target = 0
    /\ i = 1
    /\ summaries = <<>>
    /\ combined = EmptyStr
    /\ requests = <<>>
    /\ error = "none"
    /\ OuterInit

DetectSections ==
    /\ pc = "sections"
    /\ result' = [kind |-> "sections", sections |-> ExtractSections(text)]
    /\ pc' = "sections_done"
    /\ UNCHANGED <<text, duration, max_length, cleaned, target, chunks, i,
                   summaries, combined, requests, error,
                   outer>>

NextSections == DetectSections

SpecSections == InitSections /\ [][NextSections]_vars

----------------------------------------------------------------------------
(* PDFExtractor.extract_text applied to PDFs of a few extracted texts.     *)

(* The variables of summarize_for_video before it is called, at position p. *)
CoreIdle(p) ==
    /\ pc = p
    /\ text = EmptyStr
    /\ duration = 0
    /\ max_length = max_chunk_length
    /\ cleaned = EmptyStr
    /\ target = 0
    /\ chunks = <<>>
    /\ i = 1
    /\ summaries = <<>>
    /\ combined = EmptyStr
    /\ requests = <<>>
    /\ result = NoResult
    /\ error = "none"

(* The literal of the minimum content check of extract_text. *)
extraction_minimum == 100

(* text and len(text.strip()) > 100 *)
HasMinimumContent(t) == t # EmptyStr /\ StrLen(Strip(t)) > extraction_minimum

(* _extract_with_pdfplumber: the pages joined, "" when the library raises. *)
ExtractWithPdfplumber(p) == IF p.exists THEN p.pdfplumber ELSE EmptyStr

(* _extract_with_pypdf2: the pages joined, "" when the library raises. *)
ExtractWithPypdf2(p) == IF p.exists THEN p.PyPDF2 ELSE EmptyStr

ExtractionFailed == [kind |-> "raised", error |-> "extraction_failed"]

Extracted(t, method) == [kind |-> "text", text |-> t, method |-> method]

(* extract_text: pdfplumber first, PyPDF2 as the fallback, else raise. *)
ExtractText(p) ==
    IF HasMinimumContent(ExtractWithPdfplumber(p))
    THEN Extracted(ExtractWithPdfplumber(p), "pdfplumber")
    ELSE IF HasMinimumContent(ExtractWithPypdf2(p))
    THEN Extracted(ExtractWithPypdf2(p), "PyPDF2")
    ELSE ExtractionFailed

(* What a library extracts from a PDF: nothing, whitespace only, 99, 100   *)
(* and 101 characters, the same inside whitespace, and a longer text.      *)
ExtractedTexts ==
    { EmptyStr,
      <<Run("\n", 101)>>,
      <<Run("a", 99)>>,
      <<Run("a", 100)>>,
      <<Run("b", 101)>>,
      <<Run(" ", 1), Run("b", 99), Run("\n", 2)>>,
      <<Run(" ", 1), Run("a", 100), Run("\n", 1)>>,
      <<Run("a", 75), Run(" ", 1), Run("b", 75)>> }

(* The PDFs: a missing or unreadable one, and one for each pair of texts   *)
(* the two libraries extract.                                              *)
PdfFiles ==
    {NoPdf} \cup
    {[exists |-> TRUE, path |-> Chars(<<"i", "n", ".", "p", "d", "f">>),
      pdfplumber |-> a, PyPDF2 |-> b, pages |-> 1] :
        a \in ExtractedTexts, b \in ExtractedTexts}

InitExtract ==
    /\ CoreIdle("extract")
    /\ pdf \in PdfFiles
    /\ call = NoCall
    /\ file = NoFile
    /\ audio_files = <<>>
    /\ history = <<>>
    /\ summarizer = NewSummarizer("key")

ExtractTextCall ==
    /\ pc = "extract"
    /\ result' = ExtractText(pdf)
    /\ pc' = "extract_done"
    /\ UNCHANGED <<text, duration, max_length, cleaned, target, chunks, i,
                   summaries, combined, requests, error, outer>>

NextExtract == ExtractTextCall

SpecExtract == InitExtract /\ [][NextExtract]_vars

----------------------------------------------------------------------------
(* VoiceGenerator.generate_voice_from_text.                                *)

MaxVoiceChunks == 3

(* max_length=1000 of the call of _split_text_into_chunks. *)
voice_chunk_length == 1000

DigitChars == <<"0", "1", "2", "3", "4", "5", "6", "7", "8", "9">>

RECURSIVE DecimalChars(_)
(* str(n) of a natural number, as characters. *)
DecimalChars(n) ==
    IF n < 10 THEN <<DigitChars[n + 1]>>
    ELSE Append(DecimalChars(n \div 10), DigitChars[(n % 10) + 1])

(* f"{n:02d}" *)
TwoDigits(n) == IF n < 10 THEN <<"0">> \o DecimalChars(n) ELSE DecimalChars(n)

(* f"chunk_{chunk_num:02d}.mp3", under output_dir when one is given. *)
OutputFile(chunk_num, output_dir) ==
    LET name == Chars(<<"c", "h", "u", "n", "k", "_">> \o TwoDigits(chunk_num) \o <<".", "m", "p", "3">>)
    IN IF output_dir # EmptyStr THEN Cat(Cat(output_dir, Chars(<<"/">>)), name) ELSE name

(* What happens to one chunk: audio synthesized and downloaded, or one of  *)
(* the failures of os.makedirs, requests.post, response.json and the       *)
(* download.                                                               *)
ApiOutcomes ==
    {"audio", "no_audio_url", "non_200", "timeout", "request_error",
     "unexpected_error", "download_failed"}

VoiceOutcomes == ApiOutcomes \cup {"makedirs_failed"}

(* None, the return value of a failed step. *)
None == [kind |-> "None"]

(* _call_vbee_api: the parsed body of a 200 response, None otherwise. *)
CallVbeeApi(outcome) ==
    IF outcome \in {"audio", "download_failed"}
    THEN [kind |-> "json", audio_url |-> TRUE]
    ELSE IF outcome = "no_audio_url"
    THEN [kind |-> "json", audio_url |-> FALSE]
    ELSE None

(* _generate_chunk_voice after the API call: the output file when the      *)
(* response carries an audio_url and the download succeeds, None           *)
(* otherwise; every exception ends in return None.                         *)
GenerateChunkVoice(outcome, chunk_num, output_dir) ==
    LET response == CallVbeeApi(outcome)
    IN IF response # None /\ response.audio_url /\ outcome # "download_failed"
       THEN [kind |-> "file", path |-> OutputFile(chunk_num, output_dir)]
       ELSE None

(* Mutation: the return value joins the list whatever it is. *)
AppendAudioFileAlways(files, audio_file) == Append(files, audio_file)

(* if audio_file: audio_files.append(audio_file) *)
AppendAudioFile(files, audio_file) ==
    IF audio_file # None THEN Append(files, audio_file) ELSE files

(* The request _call_vbee_api posts for a chunk, with what came of it. *)
SynthesisRequest(chunk_num, input_text, outcome) ==
    [kind |-> "synthesize", chunk_num |-> chunk_num, input_text |-> input_text,
     outcome |-> outcome]

VoiceWord(k) == <<Run(IF k % 2 = 1 THEN "a" ELSE "b", 600)>>

RECURSIVE VoiceTextOf(_)
(* k words of 600 characters: k chunks of one word each. *)
VoiceTextOf(k) ==
    IF k = 0 THEN EmptyStr
    ELSE IF k = 1 THEN VoiceWord(1)
    ELSE Cat(Cat(VoiceTextOf(k - 1), Space), VoiceWord(k))

(* The texts to speak: whitespace only, a short one of two words, and the  *)
(* texts of 0..n long words.                                               *)
VoiceTexts(n) ==
    { <<Run(" ", 2)>>, <<Run("a", 2), Run(" ", 1), Run("b", 1)>> }
        \cup {VoiceTextOf(k) : k \in 0..n}

(* output_dir: not given, or a directory. *)
OutputDirs == {EmptyStr, Chars(<<"o", "u", "t">>)}

InitVoice ==
    /\ CoreIdle("idle")
    /\ OuterInit

(* generate_voice_from_text up to the loop: split the text. *)
GenerateVoiceFromText(t, output_dir) ==
    /\ pc = "idle"
    /\ text' = t
    /\ max_length' = voice_chunk_length
    /\ chunks' = SplitTextIntoChunks(t, voice_chunk_length)
    /\ i' = 1
    /\ audio_files' = <<>>
    /\ call' = [op |-> "generate_voice_from_text", output_dir |-> output_dir]
    /\ pc' = "voice_loop"
    /\ UNCHANGED <<duration, cleaned, target, summaries, combined, requests,
                   result, error, pdf, file, history, summarizer>>

(* One pass of the loop: _generate_chunk_voice for chunk i.  os.makedirs   *)
(* runs only when output_dir is given, and when it raises no request is    *)
(* posted.                                                                 *)
VoiceChunkStep(outcome) ==
    /\ pc = "voice_loop"
    /\ i <= Len(chunks)
    /\ outcome = "makedirs_failed" => call.output_dir # EmptyStr
    /\ IF outcome = "makedirs_failed"
       THEN /\ requests' = requests
            /\ audio_files' = AppendAudioFile(audio_files, None)
       ELSE /\ requests' = Append(requests, SynthesisRequest(i, chunks[i], outcome))
            /\ audio_files' = AppendAudioFile(audio_files,
                                  GenerateChunkVoice(outcome, i, call.output_dir))
    /\ history' = Append(history, [op |-> "_generate_chunk_voice", chunk_num |-> i,
                                   outcome |-> outcome])
    /\ i' = i + 1
    /\ UNCHANGED <<text, duration, max_length, pc, cleaned, target, chunks,
                   summaries, combined, result, error, pdf, call, file, summarizer>>

(* After the last chunk: the result, success whatever the loop met. *)
VoiceReturn ==
    /\ pc = "voice_loop"
    /\ i > Len(chunks)
    /\ result' = [kind |-> "voice", success |-> TRUE, audio_files |-> audio_files,
                  total_chunks |-> Len(chunks),
                  output_directory |-> IF call.output_dir # EmptyStr
                                       THEN call.output_dir ELSE Chars(<<".">>)]
    /\ pc' = "voice_done"
    /\ UNCHANGED <<text, duration, max_length, cleaned, target, chunks, i,
                   summaries, combined, requests, error, outer>>

NextVoice ==
    \/ \E t \in VoiceTexts(MaxVoiceChunks), output_dir \in OutputDirs :
          GenerateVoiceFromText(t, output_dir)
    \/ \E outcome \in VoiceOutcomes : VoiceChunkStep(outcome)
    \/ VoiceReturn

SpecVoice == InitVoice /\ [][NextVoice]_vars

----------------------------------------------------------------------------
(* SummaryTool._save_summary and VoiceGenerator._read_summary_file.        *)

Dashes == <<Run("-", 20)>>

NewLine == <<Run("\n", 1)>>

(* The character U+2022 and the blank after it. *)
Bullet == <<Run("U+2022", 1), Run(" ", 1)>>

(* metric.replace('_', ' ').title() of the four metric names. *)
MetricTitles ==
    <<Chars(<<"F", "l", "e", "s", "c", "h", " ", "R", "e", "a",
            "d", "i", "n", "g", " ", "E", "a", "s",
            "e">>),
      Chars(<<"F", "l", "e", "s", "c", "h", " ", "K", "i", "n",
            "c", "a", "i", "d", " ", "G", "r", "a",
            "d", "e">>),
      Chars(<<"A", "u", "t", "o", "m", "a", "t", "e", "d", " ",
            "R", "e", "a", "d", "a", "b", "i", "l",
            "i", "t", "y", " ", "I", "n", "d", "e",
            "x">>),
      Chars(<<"C", "o", "l", "e", "m", "a", "n", " ", "L", "i",
            "a", "u", " ", "I", "n", "d", "e", "x">>)>>

(* f"{value:.2f}" of a score.  The number textstat computes is opaque in   *)
(* the model, and so is its numeral: one symbol, named after the metric,   *)
(* that stands for its digits.                                             *)
FormatScore(v) == <<Run(v.metric, 1)>>

(* str() of a float rounded to one decimal, from its value in tenths. *)
FormatTenths(t) ==
    Chars(DecimalChars(t \div 10) \o <<".", DigitChars[(t % 10) + 1]>>)

(* str() of a natural number. *)
Decimal(n) == Chars(DecimalChars(n))

RECURSIVE KeyPointLines(_, _)
(* f"{i}. {point}\n" for the key points from the k-th on. *)
KeyPointLines(points, k) ==
    IF k > Len(points) THEN <<>>
    ELSE Decimal(k) \o Chars(<<".", " ">>) \o points[k] \o NewLine
            \o KeyPointLines(points, k + 1)

RECURSIVE KeyTopicLines(_, _)
(* f"<bullet> {topic} (mentioned {count} times)\n" for the topics from    *)
(* the k-th on.                                                            *)
KeyTopicLines(topics, k) ==
    LET MentionedOpen == Chars(<<" ", "(", "m", "e", "n", "t", "i", "o", "n", "e",
                                 "d", " ">>)
        TimesLine == Chars(<<" ", "t", "i", "m", "e", "s", ")", "\n">>)
    IN IF k > Len(topics) THEN <<>>
       ELSE Bullet \o topics[k][1] \o MentionedOpen \o Decimal(topics[k][2])
              \o TimesLine \o KeyTopicLines(topics, k + 1)

RECURSIVE MetricLines(_, _)
(* f"<bullet> {title}: {value:.2f}\n" for the metrics from the k-th on,   *)
(* in the order of their insertion.                                        *)
MetricLines(metrics, k) ==
    IF k > Len(MetricNames) THEN <<>>
    ELSE LET named == {m \in metrics : m[1] = MetricNames[k]}
         IN (IF named = {} THEN <<>>
             ELSE Bullet \o MetricTitles[k] \o Chars(<<":", " ">>)
                    \o FormatScore((CHOOSE m \in named : TRUE)[2]) \o NewLine)
            \o MetricLines(metrics, k + 1)

(* summary_result.get('pdf_path', 'Text Input') *)
SourceOf(r) ==
    IF "pdf_path" \in DOMAIN r THEN r.pdf_path
    ELSE Chars(<<"T", "e", "x", "t", " ", "I", "n", "p", "u", "t">>)

(* summary_result.get('pdf_page_count', 'N/A') *)
PagesOf(r) ==
    IF "pdf_page_count" \in DOMAIN r THEN Decimal(r.pdf_page_count)
    ELSE Chars(<<"N", "/", "A">>)

(* The text _save_summary writes for a result record. *)
SaveSummary(r) ==
    LET TitleLine == Chars(<<"P", "D", "F", " ", "T", "E", "X", "T", " ", "S",
                             "U", "M", "M", "A", "R",
                             "I", "Z", "E", "R", " ",
                             "-", " ", "V", "I", "D",
                             "E", "O", " ", "R", "E",
                             "A", "D", "Y", " ", "S",
                             "U", "M", "M", "A", "R",
                             "Y", "\n">>)
        RuleLine == <<Run("=", 50), Run("\n", 2)>>
        SourceLabel == Chars(<<"S", "o", "u", "r", "c", "e", ":", " ">>)
        PagesLabel == Chars(<<"P", "a", "g", "e", "s", ":", " ">>)
        OriginalLabel == Chars(<<"O", "r", "i", "g", "i", "n", "a", "l", " ", "W",
                                 "o", "r", "d", " ",
                                 "C", "o", "u", "n",
                                 "t", ":", " ">>)
        SummaryCountLabel == Chars(<<"S", "u", "m", "m", "a", "r", "y", " ", "W", "o",
                                     "r", "d", " ",
                                     "C", "o", "u",
                                     "n", "t", ":",
                                     " ">>)
        DurationLabel == Chars(<<"T", "a", "r", "g", "e", "t", " ", "D", "u", "r",
                                 "a", "t", "i", "o",
                                 "n", ":", " ">>)
        MinutesLine == Chars(<<" ", "m", "i", "n", "u", "t", "e", "s", "\n">>)
        ProcessedLabel == Chars(<<"P", "r", "o", "c", "e", "s", "s", "e", "d", ":",
                                  " ">>)
        SummaryHeading == Chars(<<"S", "U", "M", "M", "A", "R", "Y", "\n">>)
        KeyPointsHeading == Chars(<<"K", "E", "Y", " ", "P", "O", "I", "N", "T", "S",
                                    "\n">>)
        KeyTopicsHeading == Chars(<<"K", "E", "Y", " ", "T", "O", "P", "I", "C", "S",
                                    "\n">>)
        ReadingMetricsHeading == Chars(<<"R", "E", "A", "D", "I", "N", "G", " ", "M", "E",
                                         "T", "R", "I",
                                         "C", "S",
                                         "\n">>)
    IN
    Norm(TitleLine \o RuleLine
         \o SourceLabel \o SourceOf(r) \o NewLine
         \o PagesLabel \o PagesOf(r) \o NewLine
         \o OriginalLabel \o Decimal(r.original_word_count) \o NewLine
         \o SummaryCountLabel \o Decimal(r.word_count) \o NewLine
         \o DurationLabel \o FormatTenths(r.estimated_duration_minutes) \o MinutesLine
         \o ProcessedLabel \o r.processed_at \o NewLine \o NewLine
         \o SummaryHeading \o Dashes \o NewLine
         \o r.summary \o NewLine \o NewLine
         \o KeyPointsHeading \o Dashes \o NewLine
         \o KeyPointLines(r.key_points, 1) \o NewLine
         \o KeyTopicsHeading \o Dashes \o NewLine
         \o KeyTopicLines(r.key_topics, 1) \o NewLine
         \o (IF r.reading_metrics # {}
             THEN ReadingMetricsHeading \o Dashes \o NewLine
                    \o MetricLines(r.reading_metrics, 1)
             ELSE <<>>))

RECURSIVE ExpandRuns(_, _, _)
(* The characters of runs lo..hi of a string, one by one. *)
ExpandRuns(s, lo, hi) ==
    IF lo > hi THEN <<>>
    ELSE IF lo = hi THEN SubSeq([k \in 1..s[lo].n |-> s[lo].c], 1, s[lo].n)
    ELSE CHOOSE out \in {ExpandRuns(s, lo, mid) \o ExpandRuns(s, mid + 1, hi) :
                            mid \in {(lo + hi) \div 2}} : TRUE

(* content.find(pattern) on characters: the first position, 0 for -1. *)
Find(cs, pattern) ==
    LET hits == {p \in 1..(Len(cs) - Len(pattern) + 1) :
                    SubSeq(cs, p, p + Len(pattern) - 1) = pattern}
    IN IF hits = {} THEN 0 ELSE CHOOSE p \in hits : \A q \in hits : p <= q

RECURSIVE Remove(_, _)
(* cs.replace(pattern, ""): the occurrences, left to right, are dropped. *)
Remove(cs, pattern) ==
    LET p == Find(cs, pattern)
    IN IF p = 0 THEN cs
       ELSE SubSeq(cs, 1, p - 1)
              \o Remove(SubSeq(cs, p + Len(pattern), Len(cs)), pattern)

SummaryMarker == <<"S", "U", "M", "M", "A", "R", "Y">>

KeyPointsMarker == <<"\n", "\n", "K", "E", "Y", " ", "P", "O", "I", "N", "T", "S">>

(* _read_summary_file on the content of the file. *)
ReadSummaryFile(content) ==
    LET cs == ExpandRuns(content, 1, Len(content))
        summary_start == Find(cs, SummaryMarker)
        summary_section == SubSeq(cs, summary_start, Len(cs))
        next_section == Find(summary_section, KeyPointsMarker)
        summary_text == IF next_section # 0
                        THEN SubSeq(summary_section, 1, next_section - 1)
                        ELSE summary_section
    IN IF summary_start # 0
       THEN Strip(Chars(Remove(Remove(summary_text, Append(SummaryMarker, "\n")),
                               ExpandRuns(Dashes, 1, 1))))
       ELSE content

(* process_pdf's metadata: pdf_path, pdf_page_count, processed_at. *)
ProcessPdfRecord(r, p, now) ==
    r @@ [pdf_path |-> p.path, pdf_page_count |-> p.pages, processed_at |-> now]

(* summarize_text's metadata: processed_at, input_type. *)
SummarizeTextRecord(r, now) == r @@ [processed_at |-> now, input_type |-> "text"]

(* datetime.now().isoformat() at two moments. *)
Timestamps ==
    { Chars(<<"2", "0", "2", "4", "-", "0", "1", "-", "0", "1", "T", "0", "0", ":", "0", "0", ":", "0", "0">>),
      Chars(<<"2", "0", "2", "4", "-", "1", "2", "-", "3", "1", "T", "2", "3", ":", "5", "9", ":", "5", "9", ".", "9", "9", "9", "9", "9", "9">>) }

(* The texts summarized. *)
FileTexts ==
    { Chars(<<"m", "a", "c", "h", "i", "n", "e", " ", "l", "e", "a", "r", "n", "i", "n", "g", " ", "m", "a", "c", "h", "i", "n", "e">>),
      <<Run("a", 44), Run("\n", 1), Run("A", 1), Run("B", 1), Run(":", 1),
        Run("\n", 1), Run("B", 1)>> }

(* The summaries the model returned for them. *)
FileSummaries ==
    { Chars(<<"T", "h", "i", "s", " ", "i", "s", " ", "a", " ", "K", "e", "y", " ", "f", "i", "n", "d", "i", "n", "g", ".">>),
      Chars(<<"A", "a", " ", "b", "b", ".", "\n", "\n", "C", "c", " ", "d", "d", ".">>),
      Words("a", 3),
      Chars(<<"I", "N", " ", "S", "U", "M", "M", "A", "R", "Y", "\n", "o", "k">>) }

(* The PDF a summarized text was extracted from. *)
SourcePdf == [exists |-> TRUE, path |-> Chars(<<"i", "n", ".", "p", "d", "f">>),
              pdfplumber |-> EmptyStr, PyPDF2 |-> EmptyStr, pages |-> 12]

(* A result record of process_pdf or summarize_text is about to be saved. *)
InitFile ==
    \E t \in FileTexts, s \in FileSummaries, now \in Timestamps,
       raising \in {"none", "flesch_kincaid_grade"},
       op \in {"process_pdf", "summarize_text"} :
        /\ pc = "save"
        /\ text = t
        /\ duration = 1
        /\ max_length = max_chunk_length
        /\ cleaned = CleanText(t)
        /\ target = CalculateTargetWordCount(1)
        /\ chunks = SplitTextIntoChunks(CleanText(t), max_chunk_length)
        /\ i = 2
        /\ summaries = <<s>>
        /\ combined = s
        /\ requests = <<[Request("summarize", CleanText(t), 155, 1)
                           EXCEPT !.response = Ok(s)]>>
        /\ error = "none"
        /\ result = ResultRecord(s, raising)
        /\ call = [op |-> op,
                   summary_result |->
                       IF op = "process_pdf"
                       THEN ProcessPdfRecord(result, SourcePdf, now)
                       ELSE SummarizeTextRecord(result, now)]
        /\ pdf = IF op = "process_pdf" THEN SourcePdf ELSE NoPdf
        /\ file = NoFile
        /\ audio_files = <<>>
        /\ history = <<>>
        /\ summarizer = NewSummarizer("key")

(* _save_summary(summary_result, output_path) *)
SaveSummaryCall ==
    /\ pc = "save"
    /\ file' = [exists |-> TRUE, content |-> SaveSummary(call.summary_result)]
    /\ pc' = "saved"
    /\ UNCHANGED <<text, duration, max_length, cleaned, target, chunks, i,
                   summaries, combined, requests, result, error,
                   pdf, call, audio_files, history, summarizer>>

(* _read_summary_file(summary_file_path) on the file just written. *)
ReadSummaryFileCall ==
    /\ pc = "saved"
    /\ result' = [kind |-> "summary_text", text |-> ReadSummaryFile(file.content)]
    /\ pc' = "read_done"
    /\ UNCHANGED <<text, duration, max_length, cleaned, target, chunks, i,
                   summaries, combined, requests, error, outer>>

NextFile ==
    \/ SaveSummaryCall
    \/ ReadSummaryFileCall

SpecFile == InitFile /\ [][NextFile]_vars

----------------------------------------------------------------------------
(* SummaryTool.process_pdf and SummaryTool.summarize_text.                 *)

(* s.endswith(suffix) *)
EndsWith(s, suffix) ==
    LET cs == ExpandRuns(s, 1, Len(s))
        tail == ExpandRuns(suffix, 1, Len(suffix))
    IN /\ Len(cs) >= Len(tail)
       /\ SubSeq(cs, Len(cs) - Len(tail) + 1, Len(cs)) = tail

(* pdf_path.lower().endswith('.pdf') *)
IsPdfPath(path) == EndsWith(Lower(path), Chars(<<".", "p", "d", "f">>))

(* not extracted_text or len(extracted_text.strip()) < 100 *)
InsufficientText(t) == t = EmptyStr \/ StrLen(Strip(t)) < MIN_TEXT_LENGTH

(* The checks of process_pdf before the summary is made: the error it      *)
(* raises, "none" when it goes on to summarize.                            *)
ProcessPdfError(p) ==
    IF ~p.exists THEN "file_not_found"
    ELSE IF ~IsPdfPath(p.path) THEN "not_a_pdf"
    ELSE IF ExtractText(p) = ExtractionFailed THEN "extraction_failed"
    ELSE IF InsufficientText(ExtractText(p).text) THEN "insufficient_text"
    ELSE "none"

(* The PDFs given to process_pdf: none at the path, a text file, one whose *)
(* text is too short for both libraries, and two that can be read.         *)
ToolPdfs ==
    { NoPdf,
      [exists |-> TRUE, path |-> Chars(<<"i", "n", ".", "t", "x", "t">>),
       pdfplumber |-> EmptyStr, PyPDF2 |-> EmptyStr, pages |-> 0],
      [exists |-> TRUE, path |-> Chars(<<"i", "n", ".", "p", "d", "f">>),
       pdfplumber |-> <<Run("a", 99)>>, PyPDF2 |-> EmptyStr, pages |-> 1],
      [exists |-> TRUE, path |-> Chars(<<"I", "N", ".", "P", "D", "F">>),
       pdfplumber |-> EmptyStr,
       PyPDF2 |-> <<Run("a", 75), Run(" ", 1), Run("b", 75)>>, pages |-> 2],
      [exists |-> TRUE, path |-> Chars(<<"i", "n", ".", "p", "d", "f">>),
       pdfplumber |-> <<Run("a", 6000), Run("\n", 2), Run("b", 6000)>>,
       PyPDF2 |-> EmptyStr, pages |-> 12] }

(* The texts given to summarize_text. *)
ToolTexts ==
    { <<Run("a", 44), Run("\n", 1), Run("A", 1), Run("B", 1), Run(":", 1),
        Run("\n", 1), Run("B", 1)>>,
      <<Run("a", 6000), Run(" ", 1), Run("b", 6000)>> }

(* output_path: not given, or a path. *)
OutputPaths == {EmptyStr, Chars(<<"o", ".", "t", "x", "t">>)}

(* A file that is at the output path before the call. *)
OldFile == [exists |-> TRUE, content |-> Chars(<<"o", "l", "d">>)]

InitTool ==
    /\ CoreIdle("idle")
    /\ pdf = NoPdf
    /\ call = NoCall
    /\ file \in {NoFile, OldFile}
    /\ audio_files = <<>>
    /\ history = <<>>
    /\ summarizer = NewSummarizer("key")

(* process_pdf up to the first model request, or to the error it raises. *)
ProcessPdf(p, output_path, d) ==
    /\ pc = "idle"
    /\ pdf' = p
    /\ call' = [op |-> "process_pdf", output_path |-> output_path]
    /\ IF ProcessPdfError(p) = "none"
       THEN EnterSummarizeForVideo(ExtractText(p).text, d)
       ELSE /\ error' = ProcessPdfError(p)
            /\ pc' = "failed"
            /\ UNCHANGED <<text, duration, max_length, cleaned, target, chunks, i,
                           summaries, combined, requests, result>>
    /\ UNCHANGED <<file, audio_files, history, summarizer>>

(* summarize_text up to the first model request. *)
SummarizeText(t, d, output_path) ==
    /\ call' = [op |-> "summarize_text", output_path |-> output_path]
    /\ EnterSummarizeForVideo(t, d)
    /\ UNCHANGED <<pdf, file, audio_files, history, summarizer>>

(* The record with the metadata of the call. *)
ToolRecord(r, now) ==
    IF call.op = "process_pdf"
    THEN ProcessPdfRecord(r, pdf, now)
    ELSE SummarizeTextRecord(r, now)

(* summarize_for_video has returned: add the metadata, save the record     *)
(* when an output path was given, and return it.                           *)
ToolReturn(now) ==
    /\ pc = "returned"
    /\ result' = ToolRecord(result, now)
    /\ file' = IF call.output_path # EmptyStr
               THEN [exists |-> TRUE, content |-> SaveSummary(ToolRecord(result, now))]
               ELSE file
    /\ pc' = "tool_returned"
    /\ UNCHANGED <<text, duration, max_length, cleaned, target, chunks, i,
                   summaries, combined, requests, error,
                   pdf, call, audio_files, history, summarizer>>

(* _save_summary raises: before the file is opened, which leaves the path  *)
(* as it was, or after open() has truncated it, with nothing flushed.      *)
SaveFails(opened) ==
    /\ pc = "returned"
    /\ call.output_path # EmptyStr
    /\ file' = IF opened THEN [exists |-> TRUE, content |-> EmptyStr] ELSE file
    /\ result' = NoResult
    /\ error' = "save_failed"
    /\ pc' = "failed"
    /\ UNCHANGED <<text, duration, max_length, cleaned, target, chunks, i,
                   summaries, combined, requests,
                   pdf, call, audio_files, history, summarizer>>

ToolDurations == {1}

NextTool ==
    \/ \E p \in ToolPdfs, output_path \in OutputPaths, d \in ToolDurations :
          ProcessPdf(p, output_path, d)
    \/ \E t \in ToolTexts, d \in ToolDurations, output_path \in OutputPaths :
          SummarizeText(t, d, output_path)
    \/ RunStep
    \/ \E now \in Timestamps : ToolReturn(now)
    \/ \E opened \in BOOLEAN : SaveFails(opened)

SpecTool == InitTool /\ [][NextTool]_vars

----------------------------------------------------------------------------
(* Several calls of summarize_for_video on one TextSummarizer.             *)

MaxInvocations == 3

(* What the caller gets from a call: the record, or the exception. *)
OutcomeOfCall ==
    IF pc = "returned" THEN result ELSE [kind |-> "raised", error |-> error]

(* The responses of the model to the requests of the call, in order. *)
ResponsesOfCall == [k \in 1..Len(requests) |-> requests[k].response]

(* The texts and the model responses of the repeated calls. *)
RepeatTexts ==
    { EmptyStr,
      <<Run("a", 44), Run("\n", 1), Run("A", 1), Run("B", 1), Run(":", 1),
        Run("\n", 1), Run("B", 1)>> }

RepeatResponses == { <<Run(" ", 1), Run("b", 2), Run("\n", 1)>>, Words("a", 187) }

RepeatScorerOutcomes == {"none", "flesch_reading_ease"}

ApiKeys == {"key", "other key"}

InitRepeat ==
    /\ CoreIdle("idle")
    /\ OuterInit

(* A call of summarize_for_video, while fewer than MaxInvocations have     *)
(* been made.                                                              *)
Invoke(t, d) ==
    /\ Len(history) < MaxInvocations
    /\ SummarizeForVideo(t, d)

(* The call is over: the caller has the record or the exception, and the   *)
(* instance is ready for the next call.                                    *)
Complete ==
    /\ pc \in {"returned", "failed"}
    /\ history' = Append(history,
                         [op |-> "summarize_for_video", text |-> text,
                          duration |-> duration, responses |-> ResponsesOfCall,
                          outcome |-> OutcomeOfCall])
    /\ requests' = <<>>
    /\ result' = NoResult
    /\ error' = "none"
    /\ pc' = "idle"
    /\ UNCHANGED <<text, duration, max_length, cleaned, target, chunks, i,
                   summaries, combined, pdf, call, file, audio_files, summarizer>>

(* set_api_key between two calls. *)
SetApiKey(api_key) ==
    /\ pc = "idle"
    /\ summarizer # NewSummarizer(api_key)
    /\ summarizer' = NewSummarizer(api_key)
    /\ UNCHANGED <<text, duration, max_length, pc, cleaned, target, chunks, i,
                   summaries, combined, requests, result, error,
                   pdf, call, file, audio_files, history>>

NextRepeat ==
    \/ \E t \in RepeatTexts : Invoke(t, 1)
    \/ IssueChunkRequest
    \/ \E r \in RepeatResponses : ReceiveChunkResponse(r)
    \/ CheckLength
    \/ \E r \in RepeatResponses : ReceiveShortenResponse(r)
    \/ RequestFails
    \/ \E raising \in RepeatScorerOutcomes : ReturnResult(raising)
    \/ Complete
    \/ \E api_key \in ApiKeys : SetApiKey(api_key)

SpecRepeat == InitRepeat /\ [][NextRepeat]_vars

----------------------------------------------------------------------------
(* Claims about the orchestrator, under Spec and FairSpec.                 *)

SummarizeCount == Cardinality({k \in 1..Len(requests) : requests[k].kind = "summarize"})

ShortenCount == Cardinality({k \in 1..Len(requests) : requests[k].kind = "shorten"})

LastRequest == requests[Len(requests)]

(* Every per-chunk request has succeeded and the length has been checked. *)
PastCheck ==
    /\ pc \in {"shorten_await", "done", "returned", "failed"}
    /\ Len(summaries) = Len(chunks)

(* C1: once every per-chunk request has succeeded, a Shorten request has   *)
(* been issued if and only if the combined summary has more than 1.2 x     *)
(* target_word_count words, and then exactly one; otherwise the run is at  *)
(* Done (or past it) with one request per chunk and no Shorten request.    *)
C1_ShortenIffOverLimit ==
    PastCheck =>
        LET over == 10 * WordCount(JoinSp(summaries)) > 12 * target IN
        /\ SummarizeCount = Len(chunks)
        /\ ShortenCount = IF over THEN 1 ELSE 0
        /\ ~over => /\ pc \in {"done", "returned", "failed"}
                    /\ pc = "failed" => error = "empty_summary"
                    /\ Len(requests) = Len(chunks)

(* A run of a positive duration over two or more chunks that issued the    *)
(* Shorten request and returned.                                           *)
C1_Witness ==
    /\ pc = "returned"
    /\ duration >= 1
    /\ Len(chunks) >= 2
    /\ ShortenCount = 1

C2_Safety ==
    /\ ShortenCount <= 1
    /\ Len(requests) <= Len(chunks) + 1
    /\ (ShortenCount = 1 /\ pc \in {"done", "returned"}) =>
           /\ LastRequest.kind = "shorten"
           /\ combined = Strip(LastRequest.response.content)
    /\ (ShortenCount = 1 /\ pc = "returned") =>
           result.summary = Strip(LastRequest.response.content)

(* C2: at most one Shorten pass: the Shorten response is the final summary *)
(* with no further length check, a run issues at most (number of chunks)   *)
(* + 1 requests, and every run that starts ends, returned or failed.       *)
C2_AtMostOneShortenPass ==
    /\ []C2_Safety
    /\ (pc # "idle") ~> (pc \in {"returned", "failed"})

(* A run of a positive duration whose shortened summary, still over 1.2 x  *)
(* target, was returned.                                                   *)
C2_Witness ==
    /\ pc = "returned"
    /\ duration >= 1
    /\ ShortenCount = 1
    /\ 10 * result.word_count > 12 * target

(* C3: per-chunk requests are sequential and in order: request k carries   *)
(* chunk k, no request is issued while an earlier one is unanswered, each  *)
(* chunk is requested once, and the combined summary (returned, or sent to *)
(* be shortened) is the stripped responses joined by single spaces in      *)
(* chunk order.                                                            *)
C3_SequentialInOrder ==
    /\ \A k \in 1..Len(requests) :
          requests[k].kind = "summarize" =>
              k <= Len(chunks) /\ requests[k].text = chunks[k]
    /\ \A k \in 1..(Len(requests) - 1) : requests[k].response.status = "ok"
    /\ Len(summaries) <= Len(requests)
    /\ \A k \in 1..Len(summaries) :
          summaries[k] = Strip(requests[k].response.content)
    /\ PastCheck => SummarizeCount = Len(chunks)
    /\ (pc = "done" /\ ShortenCount = 0) => combined = JoinSp(summaries)
    /\ \A k \in 1..Len(requests) :
          requests[k].kind = "shorten" => requests[k].text = JoinSp(summaries)

(* Three chunks summarized and returned unshortened, where the order of    *)
(* the join shows.                                                         *)
C3_Witness ==
    /\ pc = "returned"
    /\ Len(chunks) = 3
    /\ ShortenCount = 0
    /\ JoinSp(summaries) # JoinSp(Reversed(summaries))

(* C4: a failed request ends the run: it is the last request issued (no    *)
(* retry, none for the remaining chunks, no Shorten), the run is failed    *)
(* with the request's error, and no result record exists.                  *)
C4_FailureAborts ==
    (\E k \in 1..Len(requests) : requests[k].response.status = "failed") =>
        /\ pc = "failed"
        /\ error = "request_failed"
        /\ result = NoResult
        /\ LastRequest.response.status = "failed"
        /\ \A k \in 1..(Len(requests) - 1) : requests[k].response.status = "ok"
        /\ SummarizeCount <= Len(summaries) + 1
        /\ ShortenCount = 1 => SummarizeCount = Len(summaries)

(* The request for the second of three chunks failed. *)
C4_Witness ==
    /\ pc = "failed"
    /\ Len(chunks) = 3
    /\ Len(requests) = 2
    /\ LastRequest.response.status = "failed"

(* C5: a text shorter than the minimum length is rejected before any model *)
(* request (stated for the durations C6 leaves alone).                     *)
C5_ShortTextRejected ==
    (pc # "idle" /\ duration >= 1 /\ StrLen(text) < MIN_TEXT_LENGTH) =>
        requests = <<>> /\ result = NoResult

(* C6: a non-positive duration is rejected before any model request, and   *)
(* no request carries a target word count of 0 or less.                    *)
C6_NonPositiveDurationRejected ==
    /\ duration <= 0 => requests = <<>>
    /\ \A k \in 1..Len(requests) : requests[k].target_word_count > 0

(* C7: an empty or whitespace-only response to any request fails the run:  *)
(* no result record is returned (stated for the durations C6 leaves        *)
(* alone).                                                                 *)
C7_EmptyResponseFailsRun ==
    (/\ duration >= 1
     /\ \E k \in 1..Len(requests) :
           /\ requests[k].response.status = "ok"
           /\ Strip(requests[k].response.content) = EmptyStr) =>
        result = NoResult

(* C13: every returned record has word_count equal to the number of       *)
(* whitespace-separated tokens of its summary, and                        *)
(* estimated_duration_minutes equal to word_count / 155 rounded to one    *)
(* decimal: the tenth e with |e - 10 * word_count / 155| <= 1/2.          *)
C13_WordCountAndDuration ==
    pc = "returned" =>
        /\ result.word_count = Len(SplitWords(result.summary))
        /\ 2 * (155 * result.estimated_duration_minutes - 10 * result.word_count) <= 155
        /\ 2 * (10 * result.word_count - 155 * result.estimated_duration_minutes) <= 155

(* A record of 94 words, estimated at 0.6 minutes, is returned.           *)
C13_Witness ==
    /\ pc = "returned"
    /\ result.word_count = 94
    /\ result.estimated_duration_minutes = 6

(* C14: the target word count of every request and of the returned record *)
(* is the target duration times 155.                                      *)
C14_TargetIsDurationTimes155 ==
    /\ \A k \in 1..Len(requests) : requests[k].target_word_count = duration * 155
    /\ pc = "returned" => result.target_word_count = duration * 155

(* A run of one minute returned, after a Summarize and a Shorten request  *)
(* that both carry 155.                                                   *)
C14_Witness ==
    /\ pc = "returned"
    /\ duration = 1
    /\ result.target_word_count = 155
    /\ \E k \in 1..Len(requests) :
          requests[k].kind = "summarize" /\ requests[k].target_word_count = 155
    /\ \E k \in 1..Len(requests) :
          requests[k].kind = "shorten" /\ requests[k].target_word_count = 155

(* C20: a readability failure never fails the run: whatever the scorer    *)
(* does, the step that follows a non-empty summary returns a record; its  *)
(* reading_metrics is the empty mapping (a metric raised) or the four     *)
(* scores, and its other fields are the same in both cases.               *)
C20_ScorerFailureLeavesRecord ==
    [][(pc = "done" /\ combined # EmptyStr) =>
          /\ pc' = "returned"
          /\ error' = "none"
          /\ result'.reading_metrics \in {{}, CalculateReadingMetrics(combined, "none")}
          /\ [result' EXCEPT !.reading_metrics = {}]
                 = [ResultRecord(combined, "none") EXCEPT !.reading_metrics = {}]]_vars

(* A record returned without metrics, and with the other fields filled. *)
C20_Witness ==
    /\ pc = "returned"
    /\ error = "none"
    /\ result.reading_metrics = {}
    /\ result.word_count = 187
    /\ result.summarization_method = "openai"

(* C21: every per-chunk request carries the cap min(1000, 1.5 x target),   *)
(* so none asks for more than 1000 tokens. The cap is held in half tokens. *)
C21_ChunkCapIsMinOfCeilingAndTarget ==
    \A k \in 1..Len(requests) :
        requests[k].kind = "summarize" =>
            LET twice_cap == requests[k].max_half_tokens
                twice_headroom == 3 * requests[k].target_word_count
            IN /\ twice_cap <= 2 * 1000
               /\ twice_cap <= twice_headroom
               /\ twice_cap = 2 * 1000 \/ twice_cap = twice_headroom

(* A five-minute run, whose target of 775 words asks for 1162.5 tokens,    *)
(* issued a per-chunk request capped at the ceiling of 1000.               *)
C21_Witness ==
    /\ duration = 5
    /\ \E k \in 1..Len(requests) :
          /\ requests[k].kind = "summarize"
          /\ requests[k].target_word_count = 775
          /\ requests[k].max_half_tokens = 2000

(* C27: every returned record has a summary of at least one word.          *)
C27_ReturnedSummaryHasAWord ==
    pc = "returned" => result.word_count >= 1

(* C28: the sections field of every returned record is the empty sequence, *)
(* and the cleaned text the detector runs on holds no newline.             *)
C28_ReturnedSectionsEmpty ==
    /\ \A k \in 1..Len(cleaned) : cleaned[k].c # "\n"
    /\ pc = "returned" => result.sections = <<>>

(* A record returned for a text in which the detector, run on the text as  *)
(* given, finds headings.                                                  *)
C28_Witness ==
    /\ pc = "returned"
    /\ StrLen(text) = 50
    /\ ExtractSections(text) # <<>>
    /\ result.sections = <<>>

(* A run of a positive duration whose cleaned text holds no token. *)
TokenlessRun == pc # "idle" /\ duration >= 1 /\ WordCount(cleaned) = 0

C29_Safety ==
    TokenlessRun =>
        /\ chunks = <<>>
        /\ requests = <<>>
        /\ result = NoResult
        /\ pc \in {"loop", "done", "failed"}
        /\ pc = "done" => combined = EmptyStr
        /\ pc = "failed" => error = "empty_summary"

(* C29: a run of a positive duration whose cleaned text has no token       *)
(* issues no model request, per-chunk or Shorten, returns no record, and   *)
(* ends failed.                                                            *)
C29_TokenlessRunFailsWithoutRequests ==
    /\ []C29_Safety
    /\ TokenlessRun ~> (pc = "failed" /\ requests = <<>> /\ result = NoResult)

(* A run over a text of artifacts and digits only, failed for its empty    *)
(* summary with no request made.                                           *)
C29_Witness ==
    /\ pc = "failed"
    /\ duration >= 1
    /\ text # EmptyStr
    /\ \E k \in 1..Len(text) : text[k].c = "#"
    /\ cleaned = EmptyStr
    /\ requests = <<>>
    /\ error = "empty_summary"

----------------------------------------------------------------------------
(* Claims about the key-point selector, under SpecKeyPoints.              *)

(* The sentences of the text, trimmed. *)
TrimmedSentences(t) ==
    LET pieces == SplitSentences(t)
    IN SubSeq([q \in 1..Len(pieces) |-> Strip(pieces[q])], 1, Len(pieces))

(* The number of entries of q that contain an importance keyword. *)
KeywordCount(q) == Cardinality({p \in 1..Len(q) : HasImportantWord(q[p])})

(* C15: the selector returns at most 5 strings; each is a trimmed sentence *)
(* of the summary, longer than 20 and shorter than 100 characters.         *)
C15_KeyPointsAreGoodSentences ==
    pc = "select_done" =>
        LET sentences == TrimmedSentences(text)
            candidates == {sentences[q] : q \in 1..Len(sentences)}
        IN /\ Len(result.key_points) <= 5
           /\ \A p \in 1..Len(result.key_points) :
                 /\ result.key_points[p] \in candidates
                 /\ StrLen(result.key_points[p]) > 20
                 /\ StrLen(result.key_points[p]) < 100

(* Five key points, of 21 and of 99 characters among them, from a summary  *)
(* that also has a sentence of exactly 20 characters.                      *)
C15_Witness ==
    /\ pc = "select_done"
    /\ Len(result.key_points) = 5
    /\ \E p \in 1..5 : StrLen(result.key_points[p]) = 21
    /\ \E p \in 1..5 : StrLen(result.key_points[p]) = 99
    /\ \E q \in 1..Len(TrimmedSentences(text)) : StrLen(TrimmedSentences(text)[q]) = 20

(* C16 as stated: in the output every sentence with an importance keyword  *)
(* precedes every sentence without one.                                    *)
C16_KeywordSentencesFirst ==
    pc = "select_done" =>
        \A p, q \in 1..Len(result.key_points) :
            (HasImportantWord(result.key_points[p]) /\ ~HasImportantWord(result.key_points[q]))
            => p < q

(* C17 as stated: of the K qualifying sentences with an importance        *)
(* keyword the output holds min(5, K).                                     *)
C17_KeywordSentencesHavePriority ==
    pc = "select_done" =>
        LET K == KeywordCount(SelectSeq(TrimmedSentences(text), IsGoodLength))
        IN KeywordCount(result.key_points) = IF K < 5 THEN K ELSE 5

----------------------------------------------------------------------------
(* Claims about the topic extractor, under SpecTopics.                    *)

(* The lowercase alphabetic words of four letters or more, in text order. *)
LongWordsOf(t) == FindLongWords(Lower(t))

(* The number of occurrences of w among the words, and its first place. *)
Occurrences(words, w) == Cardinality({k \in 1..Len(words) : words[k] = w})

FirstPlace(words, w) == CHOOSE k \in 1..Len(words) : words[k] = w /\ \A j \in 1..(k - 1) : words[j] # w

(* w ranks before v: a greater count, or the same count and an earlier    *)
(* first occurrence.                                                      *)
RanksBefore(words, w, v) ==
    \/ Occurrences(words, w) > Occurrences(words, v)
    \/ /\ Occurrences(words, w) = Occurrences(words, v)
       /\ FirstPlace(words, w) < FirstPlace(words, v)

(* C18: the extractor returns at most 10 (word, count) pairs; each word is *)
(* a lowercase alphabetic word of the text of four letters or more that is *)
(* no stop word, with the number of its occurrences; the pairs stand by    *)
(* descending count, equal counts by first occurrence; and they are the    *)
(* first 10 of that order.                                                 *)
C18_TopTenByCount ==
    pc = "topics_done" =>
        LET words == LongWordsOf(text)
            out == result.key_topics
            chosen == {out[p][1] : p \in 1..Len(out)}
            eligible == {words[k] : k \in 1..Len(words)} \ stop_words
        IN /\ Len(out) <= 10
           /\ chosen \subseteq eligible
           /\ \A p \in 1..Len(out) : out[p][2] = Occurrences(words, out[p][1])
           /\ \A p, q \in 1..Len(out) : p < q => RanksBefore(words, out[p][1], out[q][1])
           /\ \A w \in eligible \ chosen :
                 Len(out) = 10 /\ \A v \in chosen : RanksBefore(words, v, w)

(* 'machine learning machine learning deep learning' yields learning 3,   *)
(* machine 2, deep 1.                                                     *)
C18_Witness ==
    /\ pc = "topics_done"
    /\ text = TextOfWords(<<1, 2, 1, 2, 3, 2>>, 1)
    /\ result.key_topics = << <<SampleWords[2], 3>>, <<SampleWords[1], 2>>, <<SampleWords[3], 1>> >>

----------------------------------------------------------------------------
(* Claims about the section detector, under SpecSections.                 *)

(* C19 as stated: at most 10 sections, in document order: the positions   *)
(* never decrease along the result, and no match left out stands before   *)
(* a match returned.                                                      *)
C19_SectionsInDocumentOrder ==
    pc = "sections_done" =>
        LET out == result.sections
            all == AllSections(Expand(text), 1)
        IN /\ Len(out) <= 10
           /\ \A p, q \in 1..Len(out) : p < q => out[p].position <= out[q].position
           /\ \A p \in 1..Len(out), m \in (Len(out) + 1)..Len(all) :
                 out[p].position <= all[m].position

----------------------------------------------------------------------------
(* Claims about the extractor, under SpecExtract.                          *)

(* The method yields at least 100 characters of text. *)
YieldsAtLeast100(t) == StrLen(Strip(t)) >= 100

(* C22: extraction fails exactly when neither method yields at least 100   *)
(* characters; a method that yields 100 or more, pdfplumber before PyPDF2, *)
(* has its text returned.                                                  *)
C22_FailsIffNoMethodYields100 ==
    pc = "extract_done" =>
        LET first == ExtractWithPdfplumber(pdf)
            second == ExtractWithPypdf2(pdf)
        IN /\ result = ExtractionFailed <=>
                  ~YieldsAtLeast100(first) /\ ~YieldsAtLeast100(second)
           /\ YieldsAtLeast100(first) => result = Extracted(first, "pdfplumber")
           /\ (~YieldsAtLeast100(first) /\ YieldsAtLeast100(second)) =>
                  result = Extracted(second, "PyPDF2")

----------------------------------------------------------------------------
(* Claims about repeated calls, under SpecRepeat.                          *)

(* The readability scorer did the same in both calls: raised in both or in *)
(* neither.                                                                *)
SameScorerOutcome(a, b) ==
    (a.outcome.kind = "record" /\ b.outcome.kind = "record") =>
        ((a.outcome.reading_metrics = {}) <=> (b.outcome.reading_metrics = {}))

C25_SameInputsSameRecord ==
    \A a \in 1..Len(history) : \A b \in 1..Len(history) :
        (/\ history[a].text = history[b].text
         /\ history[a].duration = history[b].duration
         /\ history[a].responses = history[b].responses
         /\ SameScorerOutcome(history[a], history[b])) =>
            history[a].outcome = history[b].outcome

(* C25: no cross-invocation state: no step of a call of                    *)
(* summarize_for_video changes the stored credential or the model client,  *)
(* and two calls with the same text, duration and model responses (and the *)
(* same behaviour of the scorer) have equal outcomes, whatever calls were   *)
(* made in between.                                                        *)
C25_NoCrossInvocationState ==
    /\ []C25_SameInputsSameRecord
    /\ [][(pc # "idle" \/ pc' # "idle") => summarizer' = summarizer]_vars

(* Three calls are over: the first and the third had the same text and     *)
(* responses and returned equal records, the second, in between, was a     *)
(* different call that failed, and the credential was changed on the way.  *)
C25_Witness ==
    /\ Len(history) = 3
    /\ pc = "idle"
    /\ history[1].outcome.kind = "record"
    /\ Len(history[1].responses) = 2
    /\ history[2].outcome.kind = "raised"
    /\ history[2].responses # history[1].responses
    /\ history[3].text = history[1].text
    /\ history[3].responses = history[1].responses
    /\ history[3].outcome = history[1].outcome
    /\ summarizer = NewSummarizer("other key")

----------------------------------------------------------------------------
(* Claims about the tool, under SpecTool.                                  *)

(* The output path is as it was before the call. *)
OutputUntouched == file \in {NoFile, OldFile}

RequestFailed == \E k \in 1..Len(requests) : requests[k].response.status = "failed"

C24_Safety ==
    /\ (pc # "tool_returned" /\ error # "save_failed") => OutputUntouched
    /\ RequestFailed => OutputUntouched /\ result = NoResult /\ pc = "failed"
    /\ pc = "failed" => result = NoResult
    /\ (pc = "failed" /\ error # "save_failed") =>
           error \in {"file_not_found", "not_a_pdf", "extraction_failed",
                      "insufficient_text", "request_failed", "empty_summary"}
    /\ ~OutputUntouched =>
           /\ call.output_path # EmptyStr
           /\ combined # EmptyStr
           /\ Len(requests) >= Len(chunks)
           /\ \A k \in 1..Len(requests) : requests[k].response.status = "ok"
    /\ (pc = "tool_returned" /\ call.output_path # EmptyStr) =>
           file = [exists |-> TRUE, content |-> SaveSummary(result)]

(* C24: the output file is written only after summarization has fully     *)
(* succeeded: when validation, extraction or a model request fails, the    *)
(* output path is neither created nor overwritten and no record is         *)
(* returned; no step before the return of summarize_for_video changes the  *)
(* file.                                                                   *)
C24_FileWrittenOnlyAfterSuccess ==
    /\ []C24_Safety
    /\ [][pc # "returned" => file' = file]_vars

(* A call with an output path over an existing file failed at its second   *)
(* model request: the file is the old one and no record is returned.       *)
C24_Witness ==
    /\ pc = "failed"
    /\ error = "request_failed"
    /\ call.output_path # EmptyStr
    /\ Len(requests) = 2
    /\ requests[1].response.status = "ok"
    /\ file = OldFile
    /\ result = NoResult

----------------------------------------------------------------------------
(* Claims about the voice generator, under SpecVoice.                      *)

(* C23: a run in which a synthesis request failed (non-200, timeout,       *)
(* request error, failed download) never reports success.                  *)
C23_SynthesisFailurePropagates ==
    (/\ pc = "voice_done"
     /\ \E k \in 1..Len(requests) :
           requests[k].outcome \in {"non_200", "timeout", "request_error",
                                    "download_failed"}) =>
        result.success = FALSE

(* The names of the files of chunks 1 to 5. *)
ChunkFileNames ==
    <<Chars(<<"c", "h", "u", "n", "k", "_", "0", "1", ".", "m", "p", "3">>),
      Chars(<<"c", "h", "u", "n", "k", "_", "0", "2", ".", "m", "p", "3">>),
      Chars(<<"c", "h", "u", "n", "k", "_", "0", "3", ".", "m", "p", "3">>),
      Chars(<<"c", "h", "u", "n", "k", "_", "0", "4", ".", "m", "p", "3">>),
      Chars(<<"c", "h", "u", "n", "k", "_", "0", "5", ".", "m", "p", "3">>)>>

(* The file of chunk k under the directory of the call. *)
FileOfChunk(k) ==
    [kind |-> "file",
     path |-> IF call.output_dir = EmptyStr THEN ChunkFileNames[k]
              ELSE Cat(Chars(<<"o", "u", "t", "/">>), ChunkFileNames[k])]

(* The chunks the loop has been through whose request was posted, and      *)
(* those whose audio was synthesized and downloaded; both in chunk order.  *)
PostedChunks == SelectSeq(history, LAMBDA h : h.outcome # "makedirs_failed")

SpokenChunks == SelectSeq(history, LAMBDA h : h.outcome = "audio")

(* C30 as claimed: every chunk gets exactly one synthesis request, in      *)
(* chunk order, and audio_files holds the files of the chunks that         *)
(* succeeded, named by chunk index.                                        *)
C30_EveryChunkOneRequest ==
    pc = "voice_done" =>
        /\ Len(requests) = Len(chunks)
        /\ \A k \in 1..Len(requests) :
              requests[k].chunk_num = k /\ requests[k].input_text = chunks[k]
        /\ Len(audio_files) = Len(SpokenChunks)
        /\ \A k \in 1..Len(audio_files) :
              audio_files[k] = FileOfChunk(SpokenChunks[k].chunk_num)
        /\ Len(audio_files) <= result.total_chunks
        /\ result.total_chunks = Len(chunks)

(* C30, amended: the loop goes through every chunk once, in chunk order,   *)
(* whatever failed before; a chunk gets exactly one synthesis request      *)
(* unless the output directory could not be created for it, and then none; *)
(* audio_files holds, in order, the files of exactly the chunks            *)
(* synthesized and downloaded, named by chunk index; the run returns with  *)
(* len(audio_files) <= total_chunks = number of chunks.                    *)
C30_EveryChunkHandledOnce ==
    pc \in {"voice_loop", "voice_done"} =>
        /\ Len(history) = i - 1
        /\ \A k \in 1..Len(history) : history[k].chunk_num = k
        /\ Len(requests) = Len(PostedChunks)
        /\ \A k \in 1..Len(requests) :
              /\ requests[k].chunk_num = PostedChunks[k].chunk_num
              /\ requests[k].input_text = chunks[requests[k].chunk_num]
              /\ requests[k].outcome = PostedChunks[k].outcome
        /\ call.output_dir = EmptyStr => Len(requests) = i - 1
        /\ Len(audio_files) = Len(SpokenChunks)
        /\ \A k \in 1..Len(audio_files) :
              audio_files[k] = FileOfChunk(SpokenChunks[k].chunk_num)
        /\ pc = "voice_done" =>
              /\ i = Len(chunks) + 1
              /\ result.success
              /\ result.audio_files = audio_files
              /\ Len(result.audio_files) <= result.total_chunks
              /\ result.total_chunks = Len(chunks)

(* A run over three chunks returned: the first chunk timed out at the      *)
(* service, the directory could not be created for the second, and the     *)
(* third has its file; two requests were posted.                           *)
C30_Witness ==
    /\ pc = "voice_done"
    /\ Len(chunks) = 3
    /\ history[1].outcome = "timeout"
    /\ history[2].outcome = "makedirs_failed"
    /\ history[3].outcome = "audio"
    /\ Len(requests) = 2
    /\ requests[2].chunk_num = 3
    /\ Len(audio_files) = 1
    /\ audio_files[1].path = Cat(Chars(<<"o", "u", "t", "/">>), ChunkFileNames[3])

----------------------------------------------------------------------------
(* Claims about the summary file, under SpecFile.                          *)

(* C26: reading a saved record's file returns exactly the record's summary *)
(* text, trimmed, with nothing of the title line, of the metadata lines    *)
(* or of the later sections.                                               *)
C26_ReadReturnsSavedSummary ==
    pc = "read_done" =>
        /\ result.text = Strip(call.summary_result.summary)
        /\ ~Contains(result.text, Chars(<<"S", "o", "u", "r", "c", "e", ":">>))
        /\ ~Contains(result.text, Chars(<<"P", "r", "o", "c", "e", "s", "s", "e", "d", ":">>))
        /\ ~Contains(result.text, <<Run("=", 50)>>)

----------------------------------------------------------------------------
(* Claims about the chunker, under SpecChunk.                              *)

RECURSIVE TokensOfChunks(_)
(* The token sequences of the chunks, one after the other. *)
TokensOfChunks(cs) ==
    IF cs = <<>> THEN <<>> ELSE SplitWords(cs[1]) \o TokensOfChunks(Tail(cs))

(* C8: the chunker is lossless and word-boundary-preserving: the chunks    *)
(* re-joined with single spaces split into exactly the tokens of the       *)
(* input, no chunk is without tokens, and the chunks' own token sequences  *)
(* concatenate to the input's (no token is split across two chunks).       *)
C8_ChunkerLossless ==
    pc = "split_done" =>
        /\ SplitWords(JoinSp(chunks)) = SplitWords(text)
        /\ \A k \in 1..Len(chunks) : SplitWords(chunks[k]) # <<>>
        /\ TokensOfChunks(chunks) = SplitWords(text)

(* A text with irregular whitespace cut into several chunks, one of them   *)
(* holding several tokens.                                                 *)
C8_Witness ==
    /\ pc = "split_done"
    /\ Len(chunks) >= 2
    /\ \E k \in 1..Len(chunks) : Len(SplitWords(chunks[k])) >= 2
    /\ JoinSp(chunks) # text

(* C9: one greedy rule for every chunk: for every two adjacent chunks c    *)
(* and d, len(c) + 1 + len(first token of d) > max_chunk_chars.            *)
C9_UniformGreedyRule ==
    pc = "split_done" =>
        \A k \in 1..(Len(chunks) - 1) :
            StrLen(chunks[k]) + 1 + StrLen(SplitWords(chunks[k + 1])[1]) > max_length

(* C10: a chunk of two or more tokens is at most max_chunk_chars long.     *)
C10_MultiTokenChunkBounded ==
    pc = "split_done" =>
        \A k \in 1..Len(chunks) :
            Len(SplitWords(chunks[k])) >= 2 => StrLen(chunks[k]) <= max_length

(* A chunk of two tokens that fills the limit exactly, next to a chunk of  *)
(* a single token.                                                         *)
C10_Witness ==
    /\ pc = "split_done"
    /\ \E k \in 1..Len(chunks) :
          Len(SplitWords(chunks[k])) >= 2 /\ StrLen(chunks[k]) = max_length
    /\ \E k \in 1..Len(chunks) : Len(SplitWords(chunks[k])) = 1

(* C11: a token longer than max_length is never dropped or split: the      *)
(* tokens of the chunks are the tokens of the text, and a chunk that holds *)
(* such a token holds no other token, wherever the token stands.           *)
C11_OverlongTokenAlone ==
    pc = "split_done" =>
        /\ TokensOfChunks(chunks) = SplitWords(text)
        /\ \A k \in 1..Len(chunks) :
              (\E j \in 1..Len(SplitWords(chunks[k])) :
                    StrLen(SplitWords(chunks[k])[j]) > max_length)
              => Len(SplitWords(chunks[k])) = 1

(* An overlong token in the middle, between two tokens that fit, in a     *)
(* chunk of its own.                                                      *)
C11_Witness ==
    /\ pc = "split_done"
    /\ Len(SplitWords(text)) = 3
    /\ StrLen(SplitWords(text)[2]) > max_length
    /\ \A j \in {1, 3} : StrLen(SplitWords(text)[j]) <= max_length
    /\ chunks = SplitWords(text)

(* C12 as stated: at least one chunk for every non-empty string, and zero  *)
(* chunks only for the empty string.                                       *)
C12_NonEmptyInputHasChunk ==
    pc = "split_done" =>
        /\ (text # EmptyStr => Len(chunks) >= 1)
        /\ (Len(chunks) = 0 => text = EmptyStr)

(* C12, amended: the chunker returns zero chunks exactly for the texts     *)
(* without a token (the empty string and the strings of whitespace only),  *)
(* and at least one chunk for every text that holds a token.               *)
C12_ChunkIffToken ==
    pc = "split_done" => (Len(chunks) = 0 <=> SplitWords(text) = <<>>)

(* A non-empty text of whitespace only, split into zero chunks. *)
C12_Witness ==
    /\ pc = "split_done"
    /\ text # EmptyStr
    /\ SplitWords(text) = <<>>
    /\ chunks = <<>>

====
